---------------------------- MODULE Spec2Model ----------------------------
(***************************************************************************)
(* A model of the obfs4 protocol core: the ntor handshake messages and     *)
(* their parsers (handshake_ntor.go), the replay filter (packet.go), the   *)
(* frame codec (framing), the packet layer (packet.go) and the connection  *)
(* state machine (obfs4.go).                                               *)
(*                                                                         *)
(* Cryptography is symbolic: a MAC, a sealed box or a key seed is a record *)
(* of what it was computed from, so two of them are equal exactly when     *)
(* they were computed from the same inputs.  Byte strings are sequences    *)
(* of such symbolic bytes.  Lengths that the source fixes at 32, 16 or     *)
(* 1460 bytes are scaled down; every scaled length is named below with     *)
(* the source constant it stands for.                                      *)
(***************************************************************************)
EXTENDS Integers, Sequences, FiniteSets, TLC

(***************************************************************************)
(* State of the handshake specifications: the server clock and the number  *)
(* of steps it took, the server's replay filter, the handshake in          *)
(* progress, the number of client handshakes presented, the client message *)
(* an observer captured, and the server's latest parse.                    *)
(***************************************************************************)
VARIABLES hsNow, hsTicks, rf, sess, presented, captured, lastParse

hsVars == << hsNow, hsTicks, rf, sess, presented, captured, lastParse >>

(***************************************************************************)
(* State of the frame codec specification: an Encoder and a Decoder, the   *)
(* bytes between them (wire: encoded and not yet handed to the decoder;    *)
(* rxBuf: the decoder's buffer), the payloads encoded and not yet decoded,   *)
(* the results of the latest Encode and Decode, the nonce counters frames  *)
(* were sealed with, and whether a byte was altered on the wire.           *)
(***************************************************************************)
VARIABLES enc, dec, wire, rxBuf, inFlight, lastEnc, lastDec, sealed, tampered

frVars ==
    << enc, dec, wire, rxBuf, inFlight, lastEnc, lastDec, sealed, tampered >>

(***************************************************************************)
(* State of the connection specification: the two Obfs4Conn objects (conn) *)
(* and their sockets (sock), the bytes written to a socket and not yet     *)
(* arrived at the peer (net) and those arrived and not yet read (avail),   *)
(* where each endpoint's caller stands (pc), the client's handshake object *)
(* (hs), and ghosts: what the callers wrote and read (app), which frame    *)
(* was altered in transit (tamper), how many faults the environment        *)
(* injected (faults), and the call that returned in the latest step        *)
(* (lastOp).                                                               *)
(***************************************************************************)
VARIABLES conn, sock, net, avail, pc, hs, app, tamper, faults, lastOp

connVars ==
    << conn, sock, net, avail, pc, hs, app, tamper, faults, lastOp >>

(***************************************************************************)
(* State of the specifications of single functions: the files of the      *)
(* state directories (fs) and the latest call of serverStateFromArgs       *)
(* (lastState); the latest call of padBurst (lastPad); the latest parse of  *)
(* a piece of a handshake message (lastSeg); the latest call of            *)
(* testAndSet on the replay filter rf (lastFilter); the goroutines that    *)
(* call testAndSet concurrently (gor) and the holder of the filter's lock  *)
(* (lock); the frames an encoder sent and the order in which the network   *)
(* handed them to the decoder (ord); the latest Read on a connection whose *)
(* receive buffer held bytes that came with the handshake (lastBuf); the   *)
(* latest Read or WriteTo on a connection that a frame with a malformed    *)
(* packet reached (lastPkt); the latest parse of bytes that need not be a  *)
(* handshake message (lastMark); the run of closeAfterDelay on a           *)
(* connection whose handshake failed, with clock and peer (cadRun); the    *)
(* two goroutines of copyLoop around one transport connection (copyRun);   *)
(* a meek connection, its I/O worker and its callers (meekRun).            *)
(***************************************************************************)
VARIABLES fs, lastState, lastPad, lastSeg, lastFilter, gor, lock, ord, lastBuf

VARIABLES lastPkt, lastMark, cadRun

VARIABLES copyRun, meekRun

fnConcVars == << copyRun, meekRun >>

fnCallVars == << fs, lastState, lastPad, lastSeg, lastFilter, gor, lock, ord, lastBuf >>

fnMoreVars == << lastPkt, lastMark, cadRun, fnConcVars >>

fnVars == << fnCallVars, fnMoreVars >>

vars == << hsVars, frVars, connVars, fnVars >>

(***************************************************************************)
(* Bounds of the model.                                                    *)
(***************************************************************************)
\* Bytes per handshake field.  Stands for the 32 bytes of
\* ntor.RepresentativeLength, ntor.AuthLength, markLength and macLength.
FieldLen == 1
\* Bytes of padding room between the smallest server handshake and the
\* largest handshake.  Stands for framing.MaximumSegmentLength - 128.
PadRoom == 1
\* Client handshakes generated in one run of the handshake specification.
MaxHandshakes == 2
\* Capacity of the replay filter.  Stands for maxFilterSize = 100 * 1024.
maxFilterSize == 3
\* Steps the server clock takes in one run.
MaxTicks == 3
\* Captured client handshakes presented again in one run.
MaxReplays == 2
\* Bits of the frame nonce counter.  Stands for the 64 bits of
\* boxNonce.counter.
NonceBits == 3
\* Bytes of a sealed box beyond its payload.  Stands for the 16 bytes of
\* secretbox.Overhead.
secretboxOverhead == 1
\* Bytes of a packet header.  Stands for the 3 bytes of packetOverhead.
packetOverhead == 1
\* Bytes of a segment beyond twice the headers of one packet.  With the
\* headers it stands for the 1460 bytes of framing.MaximumSegmentLength.
SegmentRoom == 0
\* Frames encoded and not yet decoded at any time.
MaxInFlight == 1
\* Calls of Write on an established connection, both endpoints together.
MaxWrites == 1
\* Disruptions in a run: failed socket reads and writes, read deadlines
\* set, a misconfigured client, an altered byte, bytes arriving short of
\* what was sent, and Close() on an established connection.
MaxFaults == 1

(***************************************************************************)
(* Byte string helpers.  Positions are 0-based as in the Go source.        *)
(***************************************************************************)
Min(a, b) == IF a < b THEN a ELSE b

\* buf[a:b]
Slice(buf, a, b) == SubSeq(buf, a + 1, b)

\* bytes.Index(buf, sep): the first 0-based position of sep in buf, or -1.
BytesIndex(buf, sep) ==
    LET hits == { i \in 0..(Len(buf) - Len(sep)) :
                    Slice(buf, i, i + Len(sep)) = sep }
    IN  IF hits = {} THEN -1
        ELSE CHOOSE i \in hits : \A j \in hits : i <= j

RECURSIVE Digits(_)
Digits(n) == IF n < 10 THEN << n >> ELSE Digits(n \div 10) \o << n % 10 >>

\* strconv.FormatInt(n, 10) as a byte string.
FormatInt(n) ==
    LET ds == IF n < 0 THEN Digits(-n) ELSE Digits(n)
        bs == [ i \in 1..Len(ds) |-> [t |-> "digit", v |-> ds[i]] ]
    IN  IF n < 0 THEN << [t |-> "minus"] >> \o bs ELSE bs

(***************************************************************************)
(* Handshake constants (handshake_ntor.go:46-60).                          *)
(***************************************************************************)
RepresentativeLength == FieldLen
AuthLength == FieldLen
markLength == FieldLen
macLength == FieldLen

clientMinHandshakeLength == RepresentativeLength + markLength + macLength
serverMinHandshakeLength ==
    RepresentativeLength + AuthLength + markLength + macLength
\* Stands for framing.MaximumSegmentLength in the handshake constants.
hsMaximumSegmentLength == serverMinHandshakeLength + PadRoom
clientMaxHandshakeLength == hsMaximumSegmentLength
serverMaxHandshakeLength == hsMaximumSegmentLength
clientMinPadLength == serverMinHandshakeLength - clientMinHandshakeLength
clientMaxPadLength == hsMaximumSegmentLength - clientMinHandshakeLength
serverMinPadLength == 0
serverMaxPadLength == hsMaximumSegmentLength - serverMinHandshakeLength

(***************************************************************************)
(* Keys.  An identity keypair or a session keypair is named by its secret; *)
(* its public key is the record Public(k).                                 *)
(***************************************************************************)
IdentityKeys == { << "B", 1 >>, << "B", 2 >> }
NodeIDs == {"N1", "N2"}
\* ntor.NewKeypair(true) returns a fresh keypair on every call: the h-th
\* handshake of a run uses the client key <<"x", h>> and the server key
\* <<"y", h>>.
ClientSessionKeys == { << "x", h >> : h \in 1..(MaxHandshakes + 1) }
ServerSessionKeys == { << "y", h >> : h \in 1..(MaxHandshakes + 1) }

Public(k) == [t |-> "pub", k |-> k]

\* Keypair.Representative().Bytes(): the Elligator2 representative of a
\* session key, FieldLen bytes.
Representative(k) ==
    [ i \in 1..RepresentativeLength |-> [t |-> "rep", rk |-> k, i |-> i] ]

\* Representative.ToPublic(): every 32-byte string maps to some point; the
\* bytes of a session key's representative map to its public key.
ToPublic(rep) ==
    IF \E k \in ClientSessionKeys \cup ServerSessionKeys :
            rep = Representative(k)
    THEN Public((CHOOSE k \in ClientSessionKeys \cup ServerSessionKeys :
                    rep = Representative(k)))
    ELSE [t |-> "point", rp |-> rep]

\* hmac.New(sha256.New, key); Write(data); Sum(nil)
HmacSum(key, data) ==
    [ i \in 1..macLength |-> [t |-> "mac", key |-> key, d |-> data, i |-> i] ]

\* A Diffie-Hellman result: EXP(Public(b), a) = EXP(Public(a), b).
Exp(pub, secret) ==
    IF pub.t = "pub" THEN [t |-> "dh", ks |-> {pub.k, secret}]
    ELSE [t |-> "dh1", dp |-> pub, ds |-> secret]

\* ntor.ServerHandshake(clientPublic, serverKeypair, idKeypair, id)
ntorServerHandshake(clientPublic, serverKeypair, idKeypair, id) ==
    LET input == [e1 |-> Exp(clientPublic, serverKeypair),
                  e2 |-> Exp(clientPublic, idKeypair),
                  id |-> id, B |-> Public(idKeypair),
                  X |-> clientPublic, Y |-> Public(serverKeypair)]
    IN  [ok |-> TRUE,
         seed |-> [t |-> "keyseed", si |-> input],
         auth |-> [ i \in 1..AuthLength |->
                        [t |-> "auth", ai |-> input, i |-> i] ]]

\* ntor.ClientHandshake(clientKeypair, serverPublic, idPublic, id)
ntorClientHandshake(clientKeypair, serverPublic, idPublic, id) ==
    LET input == [e1 |-> Exp(serverPublic, clientKeypair),
                  e2 |-> Exp(idPublic, clientKeypair),
                  id |-> id, B |-> idPublic,
                  X |-> Public(clientKeypair), Y |-> serverPublic]
    IN  [ok |-> TRUE,
         seed |-> [t |-> "keyseed", si |-> input],
         auth |-> [ i \in 1..AuthLength |->
                        [t |-> "auth", ai |-> input, i |-> i] ]]

\* makePad(min, max): padLen random bytes, padLen drawn by the caller from
\* randRange(min, max).
makePad(padLen) == [ i \in 1..padLen |-> [t |-> "pad", pi |-> i] ]

\* getEpochHour() for a clock reading in seconds.
getEpochHour(now) == now \div 3600

(***************************************************************************)
(* The client's handshake message: X | P_C | M_C | MAC(X | P_C | M_C | E). *)
(***************************************************************************)
clientGenerateHandshake(keypair, serverIdentity, padLen, epochHour) ==
    LET X == Representative(keypair)
        mark == HmacSum(serverIdentity, X)
        body == X \o makePad(padLen) \o mark
    IN  body \o HmacSum(serverIdentity, body \o FormatInt(epochHour))

findMark(mark, buf, startPos, maxPos) ==
    LET endPos == Min(Len(buf), maxPos)
        pos == BytesIndex(Slice(buf, startPos, endPos), mark)
    IN  IF pos = -1 THEN -1 ELSE pos + startPos

NoSeed == [t |-> "noseed"]

HsResult(err, n, seed, auth, epochHour) ==
    [err |-> err, n |-> n, seed |-> seed, auth |-> auth,
     epochHour |-> epochHour]

\* A server that tolerates no clock skew ahead of its own clock.
EpochOffsetsBehindOnly == << 0, -1 >>

\* The offsets parseClientHandshake tries, in order: 0, -1, 1.
EpochOffsets == << 0, -1, 1 >>

\* The first offset in EpochOffsets whose MAC matches macRx, or 2 when none
\* does.
matchingEpochOffset(serverIdentityPublic, signed, macRx, epoch) ==
    LET ok(i) == HmacSum(serverIdentityPublic,
                         signed \o FormatInt(epoch + EpochOffsets[i])) = macRx
        hits == { i \in 1..Len(EpochOffsets) : ok(i) }
    IN  IF hits = {} THEN 2
        ELSE EpochOffsets[CHOOSE i \in hits : \A j \in hits : i <= j]

\* resp[pos+markLength : pos+markLength+macLength] when the slice ends
\* beyond len(resp): Go allows it up to the capacity of resp, and the bytes
\* are whatever the buffer holds there; beyond the capacity it panics.
StaleBytes(n) == [ i \in 1..n |-> [t |-> "stale", pi |-> i] ]

macReceived(resp, pos) ==
    LET from == pos + markLength
        to == pos + markLength + macLength
    IN  IF to <= Len(resp) THEN Slice(resp, from, to)
        ELSE Slice(resp, from, Len(resp)) \o StaleBytes(to - Len(resp))

(***************************************************************************)
(* serverHandshake.parseClientHandshake (handshake_ntor.go:227-305).       *)
(* serverIdentity is the identity keypair, sessionKey the keypair          *)
(* ntor.NewKeypair returns, now the server clock, inCap whether the MAC    *)
(* slice lies within the capacity of resp.                                 *)
(***************************************************************************)
\* A parser that waits for the mark however many bytes have arrived.
parseClientHandshakeMacNoLimit(serverIdentity, resp, now) ==
    LET clientRepresentative == Slice(resp, 0, RepresentativeLength)
        clientMark == HmacSum(Public(serverIdentity), clientRepresentative)
        pos == findMark(clientMark, resp, RepresentativeLength,
                        serverMaxHandshakeLength)
        macRx == macReceived(resp, pos)
        off == matchingEpochOffset(Public(serverIdentity),
                                   Slice(resp, 0, pos + markLength),
                                   macRx, getEpochHour(now))
    IN  IF clientMinHandshakeLength > Len(resp) \/ pos = -1
        THEN [err |-> "ErrMarkNotFoundYet", pos |-> -1, off |-> 2,
              macRx |-> << >>]
        ELSE IF off = 2
        THEN [err |-> "ErrInvalidHandshake", pos |-> pos, off |-> 2,
              macRx |-> macRx]
        ELSE [err |-> "nil", pos |-> pos, off |-> off, macRx |-> macRx]

parseClientHandshakeMac(serverIdentity, resp, now) ==
    LET clientRepresentative == Slice(resp, 0, RepresentativeLength)
        clientMark == HmacSum(Public(serverIdentity), clientRepresentative)
        pos == findMark(clientMark, resp, RepresentativeLength,
                        serverMaxHandshakeLength)
        macRx == macReceived(resp, pos)
        off == matchingEpochOffset(Public(serverIdentity),
                                   Slice(resp, 0, pos + markLength),
                                   macRx, getEpochHour(now))
    IN  IF clientMinHandshakeLength > Len(resp)
        THEN [err |-> "ErrMarkNotFoundYet", pos |-> -1, off |-> 2,
              macRx |-> << >>]
        ELSE IF pos = -1
        THEN [err |-> IF Len(resp) >= clientMaxHandshakeLength
                      THEN "ErrInvalidHandshake" ELSE "ErrMarkNotFoundYet",
              pos |-> -1, off |-> 2, macRx |-> << >>]
        ELSE IF off = 2
        THEN [err |-> "ErrInvalidHandshake", pos |-> pos, off |-> 2,
              macRx |-> macRx]
        ELSE [err |-> "nil", pos |-> pos, off |-> off, macRx |-> macRx]

parseClientHandshakeTail(serverIdentity, nodeID, sessionKey, resp, now, m) ==
    LET clientPublic == ToPublic(Slice(resp, 0, RepresentativeLength))
        nt == ntorServerHandshake(clientPublic, sessionKey, serverIdentity,
                                  nodeID)
        epochHour == FormatInt(getEpochHour(now) + m.off)
    IN  IF Len(resp) # m.pos + markLength + macLength
        THEN HsResult("ErrInvalidHandshake", 0, NoSeed, << >>, epochHour)
        ELSE IF ~nt.ok
        THEN HsResult("ErrNtorFailed", 0, NoSeed, << >>, epochHour)
        ELSE HsResult("nil", Len(resp), nt.seed, nt.auth, epochHour)

parseClientHandshake(serverIdentity, nodeID, sessionKey, resp, now, inCap) ==
    LET m == parseClientHandshakeMac(serverIdentity, resp, now)
    IN  IF m.err # "nil" /\ m.pos = -1
        THEN HsResult(m.err, 0, NoSeed, << >>, << >>)
        ELSE IF m.pos + markLength + macLength > Len(resp) /\ ~inCap
        THEN HsResult("panic", 0, NoSeed, << >>, << >>)
        ELSE IF m.err # "nil"
        THEN HsResult(m.err, 0, NoSeed, << >>, << >>)
        ELSE parseClientHandshakeTail(serverIdentity, nodeID, sessionKey,
                                      resp, now, m)

(***************************************************************************)
(* serverHandshake.generateHandshake (handshake_ntor.go:307-343):          *)
(* Y | AUTH | P_S | M_S | MAC(Y | AUTH | P_S | M_S | E), E read from the   *)
(* server clock when the response is generated.                            *)
(***************************************************************************)
\* A response whose MAC leaves out the epoch hour.
serverGenerateHandshakeNoEpoch(sessionKey, serverIdentity, serverAuth, padLen, now) ==
    LET Y == Representative(sessionKey)
        mark == HmacSum(Public(serverIdentity), Y)
        body == Y \o serverAuth \o makePad(padLen) \o mark
    IN  body \o HmacSum(Public(serverIdentity), body)

serverGenerateHandshake(sessionKey, serverIdentity, serverAuth, padLen, now) ==
    LET Y == Representative(sessionKey)
        mark == HmacSum(Public(serverIdentity), Y)
        body == Y \o serverAuth \o makePad(padLen) \o mark
    IN  body \o HmacSum(Public(serverIdentity),
                        body \o FormatInt(getEpochHour(now)))

(***************************************************************************)
(* clientHandshake.parseServerHandshake (handshake_ntor.go:151-203).       *)
(* epochHour is hs.epochHour, the string generateHandshake stored.         *)
(***************************************************************************)
parseServerHandshake(keypair, nodeID, serverIdentity, epochHour, resp, inCap) ==
    LET serverRepresentative == Slice(resp, 0, RepresentativeLength)
        serverAuth == Slice(resp, RepresentativeLength,
                            RepresentativeLength + AuthLength)
        serverMark == HmacSum(serverIdentity, serverRepresentative)
        pos == findMark(serverMark, resp, RepresentativeLength + AuthLength,
                        serverMaxHandshakeLength)
        macCmp == HmacSum(serverIdentity,
                          Slice(resp, 0, pos + markLength) \o epochHour)
        macRx == macReceived(resp, pos)
        nt == ntorClientHandshake(keypair, ToPublic(serverRepresentative),
                                  serverIdentity, nodeID)
    IN  IF serverMinHandshakeLength > Len(resp)
        THEN HsResult("ErrMarkNotFoundYet", 0, NoSeed, << >>, epochHour)
        ELSE IF pos = -1
        THEN HsResult(IF Len(resp) >= serverMaxHandshakeLength
                      THEN "ErrInvalidHandshake" ELSE "ErrMarkNotFoundYet",
                      0, NoSeed, << >>, epochHour)
        ELSE IF pos + markLength + macLength > Len(resp) /\ ~inCap
        THEN HsResult("panic", 0, NoSeed, << >>, epochHour)
        ELSE IF macCmp # macRx
        THEN HsResult("InvalidMacError", 0, NoSeed, << >>, epochHour)
        ELSE IF ~nt.ok
        THEN HsResult("ErrNtorFailed", 0, NoSeed, << >>, epochHour)
        ELSE IF nt.auth # serverAuth
        THEN HsResult("InvalidAuthError", 0, NoSeed, << >>, epochHour)
        ELSE HsResult("nil", pos + markLength + macLength, nt.seed, nt.auth,
                      epochHour)

(***************************************************************************)
(* The replay filter (packet.go:219-322).                                  *)
(***************************************************************************)
\* siphash.Hash(f.key[0], f.key[1], buf)
SipHash(key, buf) == [t |-> "sip", sk |-> key, sd |-> buf]

\* newReplayFilter(): an empty map and an empty FIFO.
newReplayFilter == [filter |-> {}, fifo |-> << >>]

\* replayFilter.reset()
filterReset(f) == [filter |-> {}, fifo |-> << >>]

\* The expiry age of compactFilter, 3600*2 seconds (packet.go:303).
filterExpiry == 3600 * 2

\* A filter that forgets its entries after one hour instead of two.
RECURSIVE compactFilterOneHour(_, _)
compactFilterOneHour(f, now) ==
    IF f.fifo = << >> THEN f
    ELSE LET entry == Head(f.fifo)
             deltaT == now - entry.firstSeen
             purged == [filter |-> { e \in f.filter : e.hash # entry.hash },
                        fifo |-> Tail(f.fifo)]
         IN  IF Len(f.fifo) < maxFilterSize
             THEN IF deltaT < 0 THEN filterReset(f)
                  ELSE IF deltaT < filterExpiry \div 2 THEN f
                  ELSE compactFilterOneHour(purged, now)
             ELSE compactFilterOneHour(purged, now)

\* A filter whose entries never expire: only a full filter gives up its
\* oldest entry.
RECURSIVE compactFilterNoExpiry(_, _)
compactFilterNoExpiry(f, now) ==
    IF f.fifo = << >> THEN f
    ELSE LET entry == Head(f.fifo)
             deltaT == now - entry.firstSeen
             purged == [filter |-> { e \in f.filter : e.hash # entry.hash },
                        fifo |-> Tail(f.fifo)]
         IN  IF Len(f.fifo) < maxFilterSize
             THEN IF deltaT < 0 THEN filterReset(f) ELSE f
             ELSE compactFilterNoExpiry(purged, now)

\* A filter that gives up entries only when they expire, however full it
\* is.
RECURSIVE compactFilterNoEviction(_, _)
compactFilterNoEviction(f, now) ==
    IF f.fifo = << >> THEN f
    ELSE LET entry == Head(f.fifo)
             deltaT == now - entry.firstSeen
             purged == [filter |-> { e \in f.filter : e.hash # entry.hash },
                        fifo |-> Tail(f.fifo)]
         IN  IF deltaT < 0 THEN filterReset(f)
             ELSE IF deltaT < filterExpiry THEN f
             ELSE compactFilterNoEviction(purged, now)

\* A compactFilter that takes a purged entry off the FIFO and leaves it in
\* the map.
RECURSIVE compactFilterKeepsMapEntry(_, _)
compactFilterKeepsMapEntry(f, now) ==
    IF f.fifo = << >> THEN f
    ELSE LET entry == Head(f.fifo)
             deltaT == now - entry.firstSeen
             purged == [filter |-> f.filter, fifo |-> Tail(f.fifo)]
         IN  IF Len(f.fifo) < maxFilterSize
             THEN IF deltaT < 0 THEN filterReset(f)
                  ELSE IF deltaT < filterExpiry THEN f
                  ELSE compactFilterKeepsMapEntry(purged, now)
             ELSE compactFilterKeepsMapEntry(purged, now)

\* replayFilter.compactFilter(now): walks the FIFO from the front.
RECURSIVE compactFilter(_, _)
compactFilter(f, now) ==
    IF f.fifo = << >> THEN f
    ELSE LET entry == Head(f.fifo)
             deltaT == now - entry.firstSeen
             purged == [filter |-> { e \in f.filter : e.hash # entry.hash },
                        fifo |-> Tail(f.fifo)]
         IN  IF Len(f.fifo) < maxFilterSize
             THEN IF deltaT < 0 THEN filterReset(f)
                  ELSE IF deltaT < filterExpiry THEN f
                  ELSE compactFilter(purged, now)
             ELSE compactFilter(purged, now)

\* A testAndSet that looks the digest up before it purges old entries.
testAndSetLookupFirst(f, key, now, buf) ==
    LET hash == SipHash(key, buf)
        c == compactFilter(f, now)
        entry == [hash |-> hash, firstSeen |-> now]
    IN  IF \E e \in f.filter : e.hash = hash
        THEN [f |-> c, seen |-> TRUE]
        ELSE [f |-> [filter |-> c.filter \cup {entry},
                     fifo |-> Append(c.fifo, entry)],
              seen |-> FALSE]

\* replayFilter.testAndSet(now, buf): the filter afterwards and the result.
testAndSet(f, key, now, buf) ==
    LET hash == SipHash(key, buf)
        c == compactFilter(f, now)
        entry == [hash |-> hash, firstSeen |-> now]
    IN  IF \E e \in c.filter : e.hash = hash
        THEN [f |-> c, seen |-> TRUE]
        ELSE [f |-> [filter |-> c.filter \cup {entry},
                     fifo |-> Append(c.fifo, entry)],
              seen |-> FALSE]

(***************************************************************************)
(* parseClientHandshake with the replay filter of the server factory       *)
(* (called at transports/meeklite/transport.go:824): once a MAC matches,   *)
(* the received MAC is tested against the filter and a hit is an invalid   *)
(* handshake.  The result and the filter afterwards.                       *)
(***************************************************************************)
parseClientHandshakeFiltered(f, key, srv, sessionKey, resp, now, inCap) ==
    LET serverIdentity == srv.identity
        m == parseClientHandshakeMac(serverIdentity, resp, now)
        r == parseClientHandshake(serverIdentity, srv.nodeID, sessionKey,
                                  resp, now, inCap)
        ts == testAndSet(f, key, now, m.macRx)
    IN  IF m.err = "nil"
        THEN IF ts.seen
             THEN [f |-> ts.f, seen |-> TRUE,
                   r |-> HsResult("ErrInvalidHandshake", 0, NoSeed, << >>,
                                  << >>)]
             ELSE [f |-> ts.f, seen |-> FALSE, r |-> r]
        ELSE [f |-> f, seen |-> FALSE, r |-> r]

(***************************************************************************)
(* The frame codec (framing.go).  A frame is the obfuscated length of the  *)
(* box followed by the box; the box is the tag followed by the ciphertext. *)
(***************************************************************************)
lengthLength == 2
FrameOverhead == lengthLength + secretboxOverhead
\* obfs4.go: headerLength = framing.FrameOverhead + packetOverhead
headerLength == FrameOverhead + packetOverhead
\* Scaled so that, as in the source, a packet of the largest payload is
\* longer than the headers of a packet.
MaximumSegmentLength == 2 * headerLength + SegmentRoom
MaximumFramePayloadLength == MaximumSegmentLength - FrameOverhead
maxFrameLength == MaximumSegmentLength - lengthLength
minFrameLength == FrameOverhead - lengthLength

\* The values of a uint64, scaled to NonceBits bits.
NonceModulus == 2 ^ NonceBits

\* boxNonce.init(prefix)
nonceInit(prefix) == [prefix |-> prefix, counter |-> 1]

\* A nonce source that never reports a wrapped counter.
nonceBytesUnchecked(nonce) ==
    [err |-> "nil",
     bytes |-> [t |-> "nonce", np |-> nonce.prefix, nc |-> nonce.counter]]

\* boxNonce.bytes(out)
nonceBytes(nonce) ==
    IF nonce.counter = 0
    THEN [err |-> "ErrNonceCounterWrapped", bytes |-> << >>]
    ELSE [err |-> "nil",
          bytes |-> [t |-> "nonce", np |-> nonce.prefix, nc |-> nonce.counter]]

\* secretbox.Seal(nil, payload, nonce, key)
Seal(payload, nonce, key) ==
    [ i \in 1..secretboxOverhead |->
        [t |-> "tag", tk |-> key, tn |-> nonce, tp |-> payload, i |-> i] ]
    \o [ i \in 1..Len(payload) |->
        [t |-> "ct", ck |-> key, cn |-> nonce, cb |-> payload[i], i |-> i] ]

\* secretbox.Open(nil, box, nonce, key)
Open(box, nonce, key) ==
    LET n == Len(box) - secretboxOverhead
        body == [ i \in 1..n |->
                    IF box[secretboxOverhead + i].t = "ct"
                    THEN box[secretboxOverhead + i].cb
                    ELSE box[secretboxOverhead + i] ]
    IN  IF n >= 0 /\ box = Seal(body, nonce, key)
        THEN [ok |-> TRUE, out |-> body]
        ELSE [ok |-> FALSE, out |-> << >>]

\* The two bytes of length XOR the first two bytes of mask.
obfuscateLength(length, mask) ==
    [ i \in 1..lengthLength |->
        [t |-> "len", lv |-> length, lm |-> mask, i |-> i] ]

\* The length two received bytes deobfuscate to under mask: the length the
\* peer wrote when they are its bytes under the same mask, else the value
\* other the XOR happens to give.
deobfuscateLength(obfsLen, mask, other) ==
    IF obfsLen[1].t = "len" /\ obfsLen = obfuscateLength(obfsLen[1].lv, mask)
    THEN obfsLen[1].lv
    ELSE other

\* NewEncoder(key)
NewEncoder(key) == [key |-> key, sip |-> << >>, nonce |-> nonceInit(key)]

EncodeResult(encoder, n, frame, err) ==
    [encoder |-> encoder, n |-> n, frame |-> frame, err |-> err]

\* Encoder.Encode(payload)
Encode(encoder, payload) ==
    LET nonce == nonceBytes(encoder.nonce)
        box == Seal(payload, nonce.bytes, encoder.key)
        lengthMask == SipHash(encoder.key, << encoder.sip, nonce.bytes >>)
        obfsLen == obfuscateLength(Len(box), lengthMask)
    IN  IF MaximumFramePayloadLength < Len(payload)
        THEN EncodeResult(encoder, 0, << >>, "InvalidPayloadLengthError")
        ELSE IF nonce.err # "nil"
        THEN EncodeResult(encoder, 0, << >>, nonce.err)
        ELSE EncodeResult(
                [encoder EXCEPT !.nonce.counter = (@ + 1) % NonceModulus,
                                !.sip = box],
                Len(payload) + FrameOverhead, obfsLen \o box, "nil")

\* NewDecoder(key)
NewDecoder(key) ==
    [key |-> key, sip |-> << >>, nonce |-> nonceInit(key),
     nextNonce |-> << >>, nextLength |-> 0]

DecodeResult(decoder, data, n, out, err) ==
    [decoder |-> decoder, data |-> data, n |-> n, out |-> out, err |-> err]

\* A decoder that does not advance its nonce counter after a frame.
decodeBoxSameNonce(d, data) ==
    LET box == Slice(data, 0, d.nextLength)
        rest == Slice(data, d.nextLength, Len(data))
        opened == Open(box, d.nextNonce, d.key)
    IN  IF d.nextLength > Len(data)
        THEN DecodeResult(d, data, 0, << >>, "ErrAgain")
        ELSE IF ~opened.ok
        THEN DecodeResult(d, rest, 0, << >>, "ErrTagMismatch")
        ELSE DecodeResult([d EXCEPT !.sip = box, !.nextLength = 0],
                          rest, Len(opened.out), opened.out, "nil")

\* A decoder that forgets the length of a frame whose body is incomplete.
decodeBoxForgetLength(d, data) ==
    LET box == Slice(data, 0, d.nextLength)
        rest == Slice(data, d.nextLength, Len(data))
        opened == Open(box, d.nextNonce, d.key)
    IN  IF d.nextLength > Len(data)
        THEN DecodeResult([d EXCEPT !.nextLength = 0], data, 0, << >>,
                          "ErrAgain")
        ELSE IF ~opened.ok
        THEN DecodeResult(d, rest, 0, << >>, "ErrTagMismatch")
        ELSE DecodeResult(
                [d EXCEPT !.sip = box, !.nextLength = 0,
                          !.nonce.counter = (@ + 1) % NonceModulus],
                rest, Len(opened.out), opened.out, "nil")

\* Decoder.Decode(data), from the point where the next frame's length is
\* known: d is the decoder and data the buffer at that point.
decodeBox(d, data) ==
    LET box == Slice(data, 0, d.nextLength)
        rest == Slice(data, d.nextLength, Len(data))
        opened == Open(box, d.nextNonce, d.key)
    IN  IF d.nextLength > Len(data)
        THEN DecodeResult(d, data, 0, << >>, "ErrAgain")
        ELSE IF ~opened.ok
        THEN DecodeResult(d, rest, 0, << >>, "ErrTagMismatch")
        ELSE DecodeResult(
                [d EXCEPT !.sip = box, !.nextLength = 0,
                          !.nonce.counter = (@ + 1) % NonceModulus],
                rest, Len(opened.out), opened.out, "nil")

\* Decoder.Decode(data).  other is the value a length field deobfuscates
\* to when it is not the peer's length field for this frame.
Decode(decoder, data, other) ==
    LET obfsLen == Slice(data, 0, lengthLength)
        rest == Slice(data, lengthLength, Len(data))
        nonce == nonceBytes(decoder.nonce)
        lengthMask == SipHash(decoder.key, << decoder.sip, nonce.bytes >>)
        length == deobfuscateLength(obfsLen, lengthMask, other)
    IN  IF decoder.nextLength # 0 THEN decodeBox(decoder, data)
        ELSE IF lengthLength > Len(data)
        THEN DecodeResult(decoder, data, 0, << >>, "ErrAgain")
        ELSE IF nonce.err # "nil"
        THEN DecodeResult(decoder, rest, 0, << >>, nonce.err)
        ELSE IF maxFrameLength < length \/ minFrameLength > length
        THEN DecodeResult([decoder EXCEPT !.nextNonce = nonce.bytes,
                                          !.sip = << >>],
                          rest, 0, << >>, "InvalidFrameLengthError")
        ELSE decodeBox([decoder EXCEPT !.nextNonce = nonce.bytes,
                                       !.sip = << >>,
                                       !.nextLength = length], rest)

(***************************************************************************)
(* The packet layer (packet.go) and the connection (obfs4.go).  A          *)
(* connection c is a record of the fields of Obfs4Conn; the socket c.conn  *)
(* is kept apart from it.  Operators that do I/O take the outcome of the   *)
(* I/O as an argument.                                                     *)
(***************************************************************************)
maxPacketPayloadLength == MaximumFramePayloadLength - packetOverhead
\* consumeReadSize = framing.MaximumSegmentLength * 16
consumeReadSize == MaximumSegmentLength * 16
packetTypePayload == 0
packetTypePrngSeed == 1
\* Bytes of a seed of the length distribution.
DrbgSeedLength == FieldLen
distSeedLength == DrbgSeedLength

\* A makePacket whose length field counts the padding as payload.
makePacketPadAsPayload(pktType, data, padLen) ==
    [ i \in 1..packetOverhead |->
        [t |-> "hdr", ty |-> pktType, ln |-> Len(data) + padLen, i |-> i] ]
    \o data \o [ i \in 1..padLen |-> [t |-> "zero"] ]

\* makePacket(pkt, pktType, data, padLen): type and length, payload,
\* zero padding.  The caller sees the panic as the error "panic".
makePacket(pktType, data, padLen) ==
    [ i \in 1..packetOverhead |->
        [t |-> "hdr", ty |-> pktType, ln |-> Len(data), i |-> i] ]
    \o data \o [ i \in 1..padLen |-> [t |-> "zero"] ]

\* Obfs4Conn.makeAndEncryptPacket(pktType, data, padLen)
makeAndEncryptPacket(c, pktType, data, padLen) ==
    IF Len(data) + padLen > maxPacketPayloadLength
    THEN EncodeResult(c.encoder, 0, << >>, "panic")
    ELSE Encode(c.encoder, makePacket(pktType, data, padLen))

BurstResult(c, burst, err) == [c |-> c, burst |-> burst, err |-> err]

\* Obfs4Conn.producePacket(w, pktType, data, padLen): the frame of the
\* packet is appended to the burst.
producePacket(c, burst, pktType, data, padLen) ==
    LET append(r) ==
            IF r.err # "nil" THEN BurstResult(c, burst, r.err)
            ELSE BurstResult([c EXCEPT !.encoder = r.encoder],
                             burst \o r.frame, "nil")
    IN  append(makeAndEncryptPacket(c, pktType, data, padLen))

\* A padBurst that does not take the header off the padding of a single
\* packet.
padBurstWholePadding(c, burst, toPadTo) ==
    LET tailLen == Len(burst) % MaximumSegmentLength
        padLen == IF toPadTo >= tailLen THEN toPadTo - tailLen
                  ELSE (MaximumSegmentLength - tailLen) + toPadTo
        second(first) ==
            IF first.err # "nil" THEN first
            ELSE producePacket(first.c, first.burst, packetTypePayload,
                               << >>, padLen)
    IN  IF padLen > headerLength
        THEN producePacket(c, burst, packetTypePayload, << >>, padLen)
        ELSE IF padLen > 0
        THEN second(producePacket(c, burst, packetTypePayload, << >>,
                                  maxPacketPayloadLength))
        ELSE BurstResult(c, burst, "nil")

\* Obfs4Conn.padBurst(burst), toPadTo being what lenProbDist.sample() gave.
padBurst(c, burst, toPadTo) ==
    LET tailLen == Len(burst) % MaximumSegmentLength
        padLen == IF toPadTo >= tailLen THEN toPadTo - tailLen
                  ELSE (MaximumSegmentLength - tailLen) + toPadTo
        second(first) ==
            IF first.err # "nil" THEN first
            ELSE producePacket(first.c, first.burst, packetTypePayload,
                               << >>, padLen)
    IN  IF padLen > headerLength
        THEN producePacket(c, burst, packetTypePayload, << >>,
                           padLen - headerLength)
        ELSE IF padLen > 0
        THEN second(producePacket(c, burst, packetTypePayload, << >>,
                                  maxPacketPayloadLength))
        ELSE BurstResult(c, burst, "nil")

\* Obfs4Conn.setBroken()
setBroken(c) == [c EXCEPT !.state = "Broken"]

\* A CanHandshake that lets a connection that has left Init handshake.
CanHandshakeAgain(c) == c.state # "Established"

\* A connection that would handshake again once broken.
CanHandshakeWhenBroken(c) == c.state \in {"Init", "Broken"}

CanHandshake(c) == c.state = "Init"

CanReadWrite(c) == c.state = "Established"

\* The flag isOk of packet.go in terms of the connection state of obfs4.go.
isOk(c) == CanReadWrite(c)

\* A length field read as no more than what follows the header.
packetPayloadLenClamped(pkt) ==
    IF pkt[packetOverhead].t = "hdr"
    THEN Min(pkt[packetOverhead].ln, Len(pkt) - packetOverhead)
    ELSE 65535

\* The type and the payload length of a decoded packet.
packetType(pkt) == IF pkt[1].t = "hdr" THEN pkt[1].ty ELSE 255
packetPayloadLen(pkt) ==
    IF pkt[packetOverhead].t = "hdr" THEN pkt[packetOverhead].ln ELSE 65535

\* newWDist(seed, 0, framing.MaximumSegmentLength): genValues,
\* genUniformWeights and genTables draw the values, the weights and the
\* alias table from a HashDrbg of the seed alone, so the buckets of a
\* distribution are determined by its seed and its range.
newWDist(seed) ==
    [seed |-> seed, minValue |-> 0, maxValue |-> MaximumSegmentLength]

\* wDist.reset(seed): new buckets from the new seed, the range as before.
wDistReset(w, seed) == [w EXCEPT !.seed = seed]

\* A receiver that takes a new seed whether it is the client or not.
prngSeedPacketAnyReceiver(c, payload) ==
    IF Len(payload) >= distSeedLength
    THEN [c EXCEPT !.lenProbDist =
                     wDistReset(@, Slice(payload, 0, distSeedLength))]
    ELSE c

\* The case packetTypePrngSeed of consumeFramedPackets.
prngSeedPacket(c, payload) ==
    IF Len(payload) >= distSeedLength /\ ~c.isServer
    THEN [c EXCEPT !.lenProbDist =
                     wDistReset(@, Slice(payload, 0, distSeedLength))]
    ELSE c

ConsumeResult(c, n, err, out) == [c |-> c, n |-> n, err |-> err, out |-> out]

\* The loop of consumeFramedPackets over c.receiveBuffer.  w is "nil" for
\* Read, and for WriteTo "ok" for a writer that takes what it is given or
\* "fail" for one that takes nothing and returns an error.  n counts the
\* bytes handed on, out holds the bytes w took.
RECURSIVE consumeLoop(_, _, _, _, _)
consumeLoop(c, w, other, n, out) ==
    IF c.receiveBuffer = << >> THEN ConsumeResult(c, n, "nil", out)
    ELSE
    LET packet(d, c1, pkt, payloadLen, payload) ==
            IF d.err = "ErrAgain" THEN ConsumeResult(c1, n, "ErrAgain", out)
            ELSE IF d.err # "nil" THEN ConsumeResult(c1, n, d.err, out)
            ELSE IF Len(pkt) < packetOverhead
            THEN ConsumeResult(c1, n, "InvalidPacketLengthError", out)
            ELSE IF payloadLen > Len(pkt) - packetOverhead
            THEN ConsumeResult(c1, n, "InvalidPayloadLengthError", out)
            ELSE IF packetType(pkt) = packetTypePayload /\ payloadLen > 0
            THEN IF w = "nil"
                 THEN consumeLoop(
                        [c1 EXCEPT !.receiveDecodedBuffer = @ \o payload],
                        w, other, n + payloadLen, out)
                 ELSE IF w = "ok"
                 THEN consumeLoop(c1, w, other, n + payloadLen,
                                  out \o payload)
                 ELSE consumeLoop(c1, w, other, n, out)
            ELSE IF packetType(pkt) = packetTypePrngSeed
            THEN consumeLoop(prngSeedPacket(c1, payload), w, other, n, out)
            ELSE consumeLoop(c1, w, other, n, out)
        sized(d, c1, payloadLen) ==
            packet(d, c1, d.out, payloadLen,
                   Slice(d.out, packetOverhead, packetOverhead + payloadLen))
        decoded(d) ==
            sized(d, [c EXCEPT !.decoder = d.decoder, !.receiveBuffer = d.data],
                  IF d.err = "nil" /\ Len(d.out) >= packetOverhead
                  THEN packetPayloadLen(d.out) ELSE 0)
    IN  decoded(Decode(c.decoder, c.receiveBuffer, other))

\* A consumeFramedPackets that leaves the connection usable after a fatal
\* error.
consumeFramedPacketsNotFatal(c, w, rd, other) ==
    IF ~isOk(c) THEN ConsumeResult(c, 0, "EINVAL", << >>)
    ELSE IF rd.err # "nil" THEN ConsumeResult(c, 0, rd.err, << >>)
    ELSE consumeLoop([c EXCEPT !.receiveBuffer = @ \o rd.data],
                     w, other, 0, << >>)

\* Obfs4Conn.consumeFramedPackets(w), rd being what c.conn.Read gave: its
\* bytes and its error.
consumeFramedPackets(c, w, rd, other) ==
    IF ~isOk(c) THEN ConsumeResult(c, 0, "EINVAL", << >>)
    ELSE IF rd.err # "nil" THEN ConsumeResult(c, 0, rd.err, << >>)
    ELSE LET consumed(r) == IF r.err \notin {"nil", "ErrAgain"}
                            THEN [r EXCEPT !.c = setBroken(r.c)]
                            ELSE r
         IN  consumed(consumeLoop([c EXCEPT !.receiveBuffer = @ \o rd.data],
                                  w, other, 0, << >>))

(***************************************************************************)
(* The frame codec specification SpecFrame: an Encoder and a Decoder made  *)
(* from the same key material; payloads of every length up to one byte     *)
(* over the maximum are encoded, the frames reach the decoder's buffer in  *)
(* chunks of any size, and one byte may be altered on the way.             *)
(***************************************************************************)
FrameKey == << "k", 1 >>

\* The payload of n bytes of the frame encoded at nonce counter id.
Payload(id, n) == [ i \in 1..n |-> [t |-> "data", df |-> id, i |-> i] ]

\* An altered byte.
FlipByte(b) == [t |-> "flip", fb |-> b]

NoEncode == [err |-> "none", n |-> 0, frameLen |-> 0, counter |-> 1,
             payloadLen |-> 0]
NoDecode == [err |-> "none", n |-> 0, out |-> << >>, expected |-> << >>,
             agains |-> 0]

FrameInit ==
    /\ enc = NewEncoder(FrameKey)
    /\ dec = NewDecoder(FrameKey)
    /\ wire = << >>
    /\ rxBuf = << >>
    /\ inFlight = << >>
    /\ lastEnc = NoEncode
    /\ lastDec = NoDecode
    /\ sealed = [with |-> {}, reused |-> FALSE]
    /\ tampered = FALSE

\* The nonce counter the box of a frame was sealed with.
sealedCounter(frame) == frame[lengthLength + 1].tn.nc

\* The application encodes a payload of n bytes and sends the frame.
FrameEncode(n) ==
    /\ Len(inFlight) < MaxInFlight
    /\ LET payload == Payload(enc.nonce.counter, n)
           r == Encode(enc, payload)
       IN  /\ enc' = r.encoder
           /\ wire' = wire \o r.frame
           /\ lastEnc' = [err |-> r.err, n |-> r.n, frameLen |-> Len(r.frame),
                          counter |-> enc.nonce.counter, payloadLen |-> n]
           /\ inFlight' = IF r.err = "nil" THEN Append(inFlight, payload)
                          ELSE inFlight
           /\ sealed' = IF r.err = "nil"
                        THEN [with |-> sealed.with \cup {sealedCounter(r.frame)},
                              reused |-> sealed.reused
                                 \/ sealedCounter(r.frame) \in sealed.with]
                        ELSE sealed
    /\ UNCHANGED << dec, rxBuf, lastDec, tampered, hsVars, connVars, fnVars >>

\* The next k bytes on the wire reach the decoder's buffer.
FrameDeliver(k) ==
    /\ k >= 1
    /\ k <= Len(wire)
    /\ rxBuf' = rxBuf \o Slice(wire, 0, k)
    /\ wire' = Slice(wire, k, Len(wire))
    /\ UNCHANGED << enc, dec, inFlight, lastEnc, lastDec, sealed, tampered, hsVars, connVars, fnVars >>

\* The lengths a length field that is not the peer's may deobfuscate to: a
\* field with an altered byte gives any length but the one the peer wrote;
\* 0 stands in where no byte of the field is altered.
OtherLengths(data) ==
    IF \E i \in 1..Min(Len(data), lengthLength) : data[i].t = "flip"
    THEN { g \in 0..(maxFrameLength + 1) :
            \A i \in 1..Min(Len(data), lengthLength) :
                (data[i].t = "flip" /\ data[i].fb.t = "len")
                    => g # data[i].fb.lv }
    ELSE {0}

DecodeFatal(err) == err \notin {"none", "nil", "ErrAgain"}

\* The receiver calls Decode on its buffer; after a fatal error it calls
\* Decode no more.  agains tells whether Decode returned ErrAgain before it
\* returned this frame: 0 not at all, 1 without the frame's length, 2 with
\* the length known and the body incomplete.
FrameDecode(other) ==
    /\ ~DecodeFatal(lastDec.err)
    /\ other \in OtherLengths(rxBuf)
    /\ LET r == Decode(dec, rxBuf, other)
       IN  /\ dec' = r.decoder
           /\ rxBuf' = r.data
           /\ lastDec' = [err |-> r.err, n |-> r.n, out |-> r.out,
                          expected |-> IF r.err # "nil" THEN << >>
                                       ELSE IF inFlight # << >>
                                       THEN Head(inFlight)
                                       ELSE << [t |-> "nothing"] >>,
                          agains |-> IF lastDec.err # "ErrAgain" /\ r.err # "ErrAgain" THEN 0
                                     ELSE IF r.err # "ErrAgain" THEN lastDec.agains
                                     ELSE IF r.decoder.nextLength # 0 THEN 2
                                     ELSE IF lastDec.err = "ErrAgain" THEN lastDec.agains
                                     ELSE 1]
           /\ inFlight' = IF r.err = "nil" /\ inFlight # << >>
                          THEN Tail(inFlight) ELSE inFlight
    /\ UNCHANGED << enc, wire, lastEnc, sealed, tampered, hsVars, connVars, fnVars >>

\* The byte about to leave the wire is altered.
FrameTamper ==
    /\ ~tampered
    /\ wire # << >>
    /\ wire' = [wire EXCEPT ![1] = FlipByte(@)]
    /\ tampered' = TRUE
    /\ UNCHANGED << enc, dec, rxBuf, inFlight, lastEnc, lastDec, sealed, hsVars, connVars, fnVars >>

\* Payload lengths offered to Encode: none, the largest, one byte too many.
PayloadLengths ==
    {0, MaximumFramePayloadLength, MaximumFramePayloadLength + 1}

\* Bytes a read from the wire returns: one, or all there are.
ChunkSizes == {1, Len(wire)}

FrameNext ==
    \/ \E n \in PayloadLengths : FrameEncode(n)
    \/ \E k \in ChunkSizes : FrameDeliver(k)
    \/ \E other \in 0..(maxFrameLength + 1) : FrameDecode(other)
    \/ FrameTamper

(***************************************************************************)
(* The handshake specification SpecHS.  One server (identity <<"B", 1>>,   *)
(* node ID "N1") takes one handshake after another from clients that may   *)
(* be configured with another identity key or node ID and whose clocks may *)
(* be up to two hours off the server's; the server clock may advance       *)
(* between any two steps of a handshake.  The parsers are those of         *)
(* handshake_ntor.go.                                                      *)
(***************************************************************************)
Server == [identity |-> << "B", 1 >>, nodeID |-> "N1"]
FilterKey == "fk"
ClockStep == filterExpiry \div 2
StartTime == 10 * ClockStep
ClientSkews == -2..2
ClientConfigs ==
    { [identity |-> b, nodeID |-> n] : b \in IdentityKeys, n \in NodeIDs }

NoResult == HsResult("none", 0, NoSeed, << >>, << >>)
Session(st, cfg, cEpoch, cToS, sParse, sParseEpoch, sGenEpoch, sToC, cParse) ==
    [st |-> st, cfg |-> cfg, cEpoch |-> cEpoch, cToS |-> cToS,
     sParse |-> sParse, sParseEpoch |-> sParseEpoch, sGenEpoch |-> sGenEpoch,
     sToC |-> sToC, cParse |-> cParse]
Idle == Session("idle", Server, 0, << >>, NoResult, 0, 0, << >>, NoResult)

NoCapture == [msg |-> << >>, firstAt |-> -1, others |-> 0, replays |-> 0,
              epoch |-> 0, again |-> 0]
NoParse == [msg |-> << >>, at |-> -1, err |-> "none", replay |-> FALSE,
            firstAt |-> -1, others |-> 0, stepped |-> FALSE, epoch |-> 0,
            again |-> 0]

HsInit ==
    /\ hsNow = StartTime
    /\ hsTicks = [fwd |-> 0, back |-> 0]
    /\ rf = newReplayFilter
    /\ sess = Idle
    /\ presented = 0
    /\ captured = NoCapture
    /\ lastParse = NoParse

\* A client builds and sends its handshake (newClientHandshake,
\* clientHandshake.generateHandshake): a fresh session key, padding of a
\* random length, the epoch hour of its own clock.
ClientHello(cfg, padLen, skew) ==
    /\ sess.st = "idle"
    /\ LET epoch == getEpochHour(hsNow) + skew
           msg == clientGenerateHandshake(<< "x", 1 >>, Public(cfg.identity),
                                          padLen, epoch)
       IN  sess' = Session("sent", cfg, epoch, msg, NoResult, 0, 0, << >>,
                           NoResult)
    /\ UNCHANGED << hsNow, hsTicks, rf, presented, captured, lastParse, frVars, connVars, fnVars >>

\* The server parses the client's message (parseClientHandshake) with a
\* fresh session keypair.
ServerParse ==
    /\ sess.st = "sent"
    /\ LET r == parseClientHandshake(Server.identity, Server.nodeID,
                                     << "y", 1 >>, sess.cToS, hsNow, TRUE)
       IN  sess' = Session(IF r.err = "nil" THEN "parsed" ELSE "failed",
                           sess.cfg, sess.cEpoch, sess.cToS, r,
                           getEpochHour(hsNow), 0, << >>, NoResult)
    /\ UNCHANGED << hsNow, hsTicks, rf, presented, captured, lastParse, frVars, connVars, fnVars >>

\* The server builds its response (serverHandshake.generateHandshake).
ServerRespond(padLen) ==
    /\ sess.st = "parsed"
    /\ sess' = Session("responded", sess.cfg, sess.cEpoch, sess.cToS,
                       sess.sParse, sess.sParseEpoch, getEpochHour(hsNow),
                       serverGenerateHandshake(<< "y", 1 >>, Server.identity,
                                               sess.sParse.auth, padLen,
                                               hsNow),
                       NoResult)
    /\ UNCHANGED << hsNow, hsTicks, rf, presented, captured, lastParse, frVars, connVars, fnVars >>

\* The client parses the server's response (parseServerHandshake).
ClientParse ==
    /\ sess.st = "responded"
    /\ sess' = Session("done", sess.cfg, sess.cEpoch, sess.cToS, sess.sParse,
                       sess.sParseEpoch, sess.sGenEpoch, sess.sToC,
                       parseServerHandshake(<< "x", 1 >>, sess.cfg.nodeID,
                                            Public(sess.cfg.identity),
                                            FormatInt(sess.cEpoch), sess.sToC,
                                            TRUE))
    /\ UNCHANGED << hsNow, hsTicks, rf, presented, captured, lastParse, frVars, connVars, fnVars >>

\* The handshake is over; the next one may start.
HsFinish ==
    /\ sess.st \in {"failed", "done"}
    /\ sess' = Idle
    /\ UNCHANGED << hsNow, hsTicks, rf, presented, captured, lastParse, frVars, connVars, fnVars >>

\* The server clock advances by an hour.
Tick ==
    /\ hsTicks.fwd + hsTicks.back < MaxTicks
    /\ hsNow' = hsNow + ClockStep
    /\ hsTicks' = [hsTicks EXCEPT !.fwd = @ + 1]
    /\ UNCHANGED << rf, sess, presented, captured, lastParse, frVars, connVars, fnVars >>

(***************************************************************************)
(* The replay specification SpecReplay.  Clients of the server's           *)
(* configuration present fresh handshakes to the server, whose             *)
(* parseClientHandshake consults the replay filter of the server factory;  *)
(* an observer captures one accepted message and presents it again; the    *)
(* server clock advances by an hour or by a second, or is set back by an  *)
(* hour.  A client's clock is right or an hour ahead of the server's.      *)
(***************************************************************************)
\* The record of a parse: the message, the server time, the error, whether
\* it was the captured message presented again, and of the captured
\* message the time of its first presentation, the number of other
\* handshakes since, the epoch hour in its MAC and the number of times the
\* server has accepted it again.
ParseRecord(msg, err, replay, c) ==
    [msg |-> msg, at |-> hsNow, err |-> err, replay |-> replay,
     firstAt |-> c.firstAt, others |-> c.others,
     stepped |-> hsTicks.back > 0, epoch |-> c.epoch, again |-> c.again]

\* Hours by which the clock of a client in SpecReplay is ahead.
ReplaySkews == {0, 1}

\* A client presents a fresh handshake; the observer may capture it when
\* the server accepts it.
Present(padLen, skew, capture) ==
    /\ presented < MaxHandshakes
    /\ LET msg == clientGenerateHandshake(<< "x", presented + 1 >>,
                                          Public(Server.identity), padLen,
                                          getEpochHour(hsNow) + skew)
           fr == parseClientHandshakeFiltered(rf, FilterKey, Server,
                                              << "y", presented + 1 >>, msg,
                                              hsNow, TRUE)
       IN  /\ rf' = fr.f
           /\ lastParse' = ParseRecord(msg, fr.r.err, FALSE, NoCapture)
           /\ captured' =
                IF captured # NoCapture
                THEN [captured EXCEPT !.others = @ + 1]
                ELSE IF capture /\ fr.r.err = "nil"
                THEN [msg |-> msg, firstAt |-> hsNow, others |-> 0,
                      replays |-> 0, epoch |-> getEpochHour(hsNow) + skew,
                      again |-> 0]
                ELSE captured
    /\ presented' = presented + 1
    /\ UNCHANGED << hsNow, hsTicks, sess, frVars, connVars, fnVars >>

\* The captured message is presented to the server again.
Replay ==
    /\ captured # NoCapture
    /\ captured.replays < MaxReplays
    /\ LET fr == parseClientHandshakeFiltered(rf, FilterKey, Server,
                                              << "y", MaxHandshakes + 1 >>,
                                              captured.msg, hsNow, TRUE)
       IN  /\ rf' = fr.f
           /\ lastParse' = ParseRecord(captured.msg, fr.r.err, TRUE, captured)
           /\ captured' = [captured EXCEPT
                             !.replays = @ + 1,
                             !.again = IF fr.r.err = "nil" THEN @ + 1 ELSE @]
    /\ UNCHANGED << hsNow, hsTicks, sess, presented, frVars, connVars, fnVars >>

\* A second passes on the server's clock.
SecondPasses ==
    /\ hsTicks.fwd + hsTicks.back < MaxTicks
    /\ hsNow' = hsNow + 1
    /\ hsTicks' = [hsTicks EXCEPT !.fwd = @ + 1]
    /\ UNCHANGED << rf, sess, presented, captured, lastParse, frVars, connVars, fnVars >>

\* The server's wall clock is set back by an hour.
ClockStepBack ==
    /\ hsTicks.fwd + hsTicks.back < MaxTicks
    /\ hsNow' = hsNow - ClockStep
    /\ hsTicks' = [hsTicks EXCEPT !.back = @ + 1]
    /\ UNCHANGED << rf, sess, presented, captured, lastParse, frVars, connVars, fnVars >>

(***************************************************************************)
(* The connection specification Spec.  A client dials the server           *)
(* (Dial, clientHandshake) and the server completes the handshake on the   *)
(* connection it accepted (ServerHandshake); the callers of both           *)
(* endpoints then call Read, Write, WriteTo, SetReadDeadline, Close and    *)
(* ServerHandshake in any order, one call at a time per connection.  The   *)
(* stream between the sockets delivers bytes in order and in pieces; a     *)
(* write to a socket may fail after none or a part of its bytes went out,  *)
(* a read may fail, and one byte of a sealed box may be altered in         *)
(* transit.  A call that blocks in c.conn.Read is taken when the bytes or  *)
(* the error that let it return are there.                                 *)
(***************************************************************************)
Endpoints == {"cli", "srv"}
Peer(e) == IF e = "cli" THEN "srv" ELSE "cli"

Nil == [t |-> "nil"]

\* A seed of the length distribution (DrbgSeed.Bytes()).
SeedBytes(s) ==
    [ i \in 1..DrbgSeedLength |-> [t |-> "seed", sv |-> s, i |-> i] ]

\* The Obfs4Listener of the server.
Listener == [nodeID |-> Server.nodeID, keyPair |-> Server.identity,
             seed |-> SeedBytes("listener"),
             closeDelayBytes |-> MaximumSegmentLength]

\* The samples drawn in this model: one that makes padBurst send two
\* packets or none, and one that makes it send one or two.
SampleValues == {0, headerLength + 1}

\* new(Obfs4Conn) with the fields Dial and Accept set.
NewConn(isServer, seed) ==
    [state |-> "Init", isServer |-> isServer, listener |-> isServer,
     lenProbDist |-> newWDist(seed), encoder |-> Nil, decoder |-> Nil,
     receiveBuffer |-> << >>, receiveDecodedBuffer |-> << >>]

\* ntor.Kdf(seed, framing.KeyLength*2): half 1 is okm[:KeyLength], half 2
\* is okm[KeyLength:].
Kdf(seed, half) == [t |-> "okm", ks |-> seed, half |-> half]

\* The i-th to (i+n-1)-th byte the caller of endpoint e writes.
AppBytes(e, from, n) ==
    [ i \in 1..n |-> [t |-> "app", w |-> e, i |-> from + i] ]

NoOp == [op |-> "none", ep |-> "none", err |-> "nil", n |-> 0,
         before |-> "Init", after |-> "Init", io |-> FALSE, same |-> TRUE,
         cad |-> FALSE, sockClosed |-> FALSE, refused |-> FALSE]

\* The record of a call that returned: the method, the endpoint, the error
\* and the count it returned, the connection state before and after,
\* whether the call read from or wrote to the socket, whether it left the
\* connection object as it was, whether closeAfterDelay ran, and whether
\* the socket is closed on return; refused is set by WriteTo alone, when
\* its writer did not take payload handed to it.
Op(op, e, err, n, c0, c1, io, cad, closed) ==
    [op |-> op, ep |-> e, err |-> err, n |-> n, before |-> c0.state,
     after |-> c1.state, io |-> io, same |-> (c0 = c1), cad |-> cad,
     sockClosed |-> closed, refused |-> FALSE]

ConnInit ==
    /\ conn = [ e \in Endpoints |->
                  IF e = "srv" THEN NewConn(TRUE, Listener.seed)
                  ELSE NewConn(FALSE, SeedBytes("client")) ]
    /\ sock = [ e \in Endpoints |-> [closed |-> FALSE, rdDeadline |-> FALSE] ]
    /\ net = [ e \in Endpoints |-> << >> ]
    /\ avail = [ e \in Endpoints |-> << >> ]
    /\ pc = [ e \in Endpoints |-> IF e = "srv" THEN "ready" ELSE "new" ]
    /\ hs = Nil
    /\ app = [ e \in Endpoints |->
                 [written |-> << >>, okWritten |-> << >>, read |-> << >>,
                  copied |-> << >>, frameOf |-> << >>, writes |-> 0,
                  usedWriteTo |-> FALSE] ]
    /\ tamper = [ep |-> "none", ctr |-> 0]
    /\ faults = 0
    /\ lastOp = NoOp

\* What c.conn.Write(data) does: all of data goes out, or it fails after
\* none of it or after all but its last byte went out.
WriteOutcomes == {"ok", "none", "part"}
SockWritten(data, wr) ==
    IF wr = "ok" THEN data
    ELSE IF wr = "part" THEN Slice(data, 0, Len(data) - 1)
    ELSE << >>
SockWriteErr(wr) == IF wr = "ok" THEN "nil" ELSE "EPIPE"

\* The errors c.conn.Read of endpoint e may return when no byte has
\* arrived: the read deadline passes, the peer closed its socket and all
\* it sent was read, or the connection is reset.
ReadErrors(e) ==
    {"ECONNRESET"}
    \cup (IF sock[e].rdDeadline THEN {"timeout"} ELSE {})
    \cup (IF sock[Peer(e)].closed /\ net[e] = << >> THEN {"EOF"} ELSE {})

\* What a blocked c.conn.Read is taken to return: an error, or ("none")
\* bytes only.
ReadOutcomes(e) == {"none"} \cup ReadErrors(e)

\* The errors that are faults of the stream, and the step of a call that
\* returned err: it is taken while the faults last.
StreamFaults == {"ECONNRESET", "EPIPE"}
Faulty(errs, also) ==
    /\ (errs \cap StreamFaults # {} \/ also) => faults < MaxFaults
    /\ faults' = IF errs \cap StreamFaults # {} \/ also THEN faults + 1
                 ELSE faults

HandshakeResult(c, av, out, err, blocked, deadline, auth) ==
    [c |-> c, av |-> av, out |-> out, err |-> err, blocked |-> blocked,
     deadline |-> deadline, auth |-> auth]

\* newClientHandshake and generateHandshake: the handshake object of the
\* client and its message.
newClientHandshake(cfg) ==
    [keypair |-> << "x", 1 >>, nodeID |-> cfg.nodeID,
     serverIdentity |-> Public(cfg.identity),
     epochHour |-> FormatInt(getEpochHour(StartTime))]

\* A client that keys its encoder and decoder as the server does.
RECURSIVE clientHandshakeRecvServerHalves(_, _, _, _, _)
clientHandshakeRecvServerHalves(c, h, av, rdErr, inCap) ==
    IF av = << >>
    THEN HandshakeResult(c, av, << >>, IF rdErr = "none" THEN "nil" ELSE rdErr,
                         rdErr = "none", TRUE, << >>)
    ELSE
    LET n == Min(Len(av), serverMaxHandshakeLength)
        rest == Slice(av, n, Len(av))
        c1 == [c EXCEPT !.receiveBuffer = @ \o Slice(av, 0, n)]
        parsed(r) ==
            IF r.err = "ErrMarkNotFoundYet"
            THEN clientHandshakeRecvServerHalves(c1, h, rest, rdErr, inCap)
            ELSE IF r.err # "nil"
            THEN HandshakeResult(c1, rest, << >>, r.err, FALSE, TRUE, << >>)
            ELSE HandshakeResult(
                   [c1 EXCEPT !.receiveBuffer = Slice(@, r.n, Len(@)),
                              !.encoder = NewEncoder(Kdf(r.seed, 2)),
                              !.decoder = NewDecoder(Kdf(r.seed, 1)),
                              !.state = "Established"],
                   rest, << >>, "nil", FALSE, FALSE, r.auth)
    IN  parsed(parseServerHandshake(h.keypair, h.nodeID, h.serverIdentity,
                                    h.epochHour, c1.receiveBuffer, inCap))

\* The read loop of clientHandshake.  av holds the bytes arrived at the
\* socket, rdErr is what a read with no byte arrived returns.
RECURSIVE clientHandshakeRecv(_, _, _, _, _)
clientHandshakeRecv(c, h, av, rdErr, inCap) ==
    IF av = << >>
    THEN HandshakeResult(c, av, << >>, IF rdErr = "none" THEN "nil" ELSE rdErr,
                         rdErr = "none", TRUE, << >>)
    ELSE
    LET n == Min(Len(av), serverMaxHandshakeLength)
        rest == Slice(av, n, Len(av))
        c1 == [c EXCEPT !.receiveBuffer = @ \o Slice(av, 0, n)]
        parsed(r) ==
            IF r.err = "ErrMarkNotFoundYet"
            THEN clientHandshakeRecv(c1, h, rest, rdErr, inCap)
            ELSE IF r.err # "nil"
            THEN HandshakeResult(c1, rest, << >>, r.err, FALSE, TRUE, << >>)
            ELSE HandshakeResult(
                   [c1 EXCEPT !.receiveBuffer = Slice(@, r.n, Len(@)),
                              !.encoder = NewEncoder(Kdf(r.seed, 1)),
                              !.decoder = NewDecoder(Kdf(r.seed, 2)),
                              !.state = "Established"],
                   rest, << >>, "nil", FALSE, FALSE, r.auth)
    IN  parsed(parseServerHandshake(h.keypair, h.nodeID, h.serverIdentity,
                                    h.epochHour, c1.receiveBuffer, inCap))

\* The read loop of serverHandshake.
RECURSIVE serverHandshakeRecv(_, _, _, _)
serverHandshakeRecv(c, av, rdErr, inCap) ==
    IF av = << >>
    THEN HandshakeResult(c, av, << >>, IF rdErr = "none" THEN "nil" ELSE rdErr,
                         rdErr = "none", TRUE, << >>)
    ELSE
    LET n == Min(Len(av), clientMaxHandshakeLength)
        rest == Slice(av, n, Len(av))
        c1 == [c EXCEPT !.receiveBuffer = @ \o Slice(av, 0, n)]
        parsed(r) ==
            IF r.err = "ErrMarkNotFoundYet"
            THEN serverHandshakeRecv(c1, rest, rdErr, inCap)
            ELSE IF r.err # "nil"
            THEN HandshakeResult(c1, rest, << >>, r.err, FALSE, TRUE, << >>)
            ELSE HandshakeResult(
                   [c1 EXCEPT !.receiveBuffer = << >>,
                              !.encoder = NewEncoder(Kdf(r.seed, 2)),
                              !.decoder = NewDecoder(Kdf(r.seed, 1))],
                   rest, << >>, "nil", FALSE, FALSE, r.auth)
    IN  parsed(parseClientHandshake(Listener.keyPair, Listener.nodeID,
                                    << "y", 1 >>, c1.receiveBuffer, StartTime,
                                    inCap))

\* A panic unwinds serverHandshake with err still nil: setBroken is not
\* run.  Any other error runs it.
serverHandshakeFail(c, av, out, err, deadline) ==
    HandshakeResult(IF err = "panic" THEN c ELSE setBroken(c), av, out, err,
                    FALSE, deadline, << >>)

\* Obfs4Conn.serverHandshake(nodeID, keypair).  padLen is the padding
\* length generateHandshake draws, toPadTo the sample padBurst draws, wrBlob
\* and wrBurst what the two writes to the socket do.  out holds the bytes
\* that went out.
serverHandshake(c, av, rdErr, inCap, padLen, toPadTo, wrBlob, wrBurst) ==
    LET send(rx, blob, padded) ==
            IF padded.err # "nil"
            THEN serverHandshakeFail(padded.c, rx.av, blob, padded.err, FALSE)
            ELSE IF wrBurst # "ok"
            THEN serverHandshakeFail(
                   padded.c, rx.av,
                   blob \o SockWritten(padded.burst, wrBurst),
                   SockWriteErr(wrBurst), FALSE)
            ELSE HandshakeResult(padded.c, rx.av, blob \o padded.burst,
                                 "nil", FALSE, FALSE, rx.auth)
        pad(rx, blob, seedPkt) ==
            IF seedPkt.err # "nil"
            THEN serverHandshakeFail(seedPkt.c, rx.av, blob, seedPkt.err,
                                     FALSE)
            ELSE send(rx, blob, padBurst(seedPkt.c, seedPkt.burst, toPadTo))
        respond(rx, blob) ==
            IF wrBlob # "ok"
            THEN serverHandshakeFail(rx.c, rx.av, SockWritten(blob, wrBlob),
                                     SockWriteErr(wrBlob), FALSE)
            ELSE pad(rx, blob,
                     producePacket([rx.c EXCEPT !.state = "Established"],
                                   << >>, packetTypePrngSeed, Listener.seed,
                                   0))
        received(rx) ==
            IF rx.blocked THEN rx
            ELSE IF rx.err # "nil"
            THEN serverHandshakeFail(rx.c, rx.av, << >>, rx.err, TRUE)
            ELSE respond(rx, serverGenerateHandshake(
                               << "y", 1 >>, Listener.keyPair, rx.auth,
                               padLen, StartTime))
    IN  received(serverHandshakeRecv(c, av, rdErr, inCap))

\* The bytes closeAfterDelay leaves unread: it reads up to a segment at a
\* time until it has discarded toDiscard bytes or a read fails.
RECURSIVE drain(_, _, _)
drain(av, discarded, toDiscard) ==
    IF discarded >= toDiscard \/ av = << >> THEN av
    ELSE LET n == Min(Len(av), MaximumSegmentLength)
         IN  drain(Slice(av, n, Len(av)), discarded + n, toDiscard)

\* closeAfterDelay returning with the socket left open.
closeAfterDelayNoClose(sk, av, late, toDiscard) ==
    IF late THEN [sock |-> sk, av |-> av]
    ELSE [sock |-> [sk EXCEPT !.rdDeadline = TRUE],
          av |-> drain(av, 0, toDiscard)]

\* Obfs4Conn.closeAfterDelay().  late: the deadline has passed already.
\* The result is the socket and the bytes arrived and unread when it
\* returns.
closeAfterDelay(sk, av, late, toDiscard) ==
    IF late THEN [sock |-> [sk EXCEPT !.closed = TRUE], av |-> av]
    ELSE [sock |-> [sk EXCEPT !.closed = TRUE, !.rdDeadline = TRUE],
          av |-> drain(av, 0, toDiscard)]

\* The chopping loop of Write: b goes out in packets of at most
\* maxPacketPayloadLength bytes, one frame each.
RECURSIVE chopLoop(_, _, _)
chopLoop(c, b, frameBuf) ==
    IF b = << >> THEN BurstResult(c, frameBuf, "nil")
    ELSE LET rdLen == Min(Len(b), maxPacketPayloadLength)
             next(r) == IF r.err # "nil" THEN r
                        ELSE chopLoop(r.c, Slice(b, rdLen, Len(b)), r.burst)
         IN  next(producePacket(c, frameBuf, packetTypePayload,
                                Slice(b, 0, rdLen), 0))

WriteResult(c, n, err, out, io) ==
    [c |-> c, n |-> n, err |-> err, out |-> out, io |-> io]

\* A Write that leaves the connection as it is when the write to the
\* socket fails.
WriteShortNotFatal(c, b, toPadTo, wr) ==
    LET fail(c1, err) == WriteResult(IF err = "panic" THEN c1
                                     ELSE setBroken(c1), 0, err, << >>, FALSE)
        send(padded) ==
            IF padded.err # "nil" THEN fail(padded.c, padded.err)
            ELSE IF wr # "ok"
            THEN WriteResult(padded.c, 0, SockWriteErr(wr),
                             SockWritten(padded.burst, wr), TRUE)
            ELSE WriteResult(padded.c, Len(b), "nil", padded.burst, TRUE)
        pad(chopped) ==
            IF chopped.err # "nil" THEN fail(chopped.c, chopped.err)
            ELSE send(padBurst(chopped.c, chopped.burst, toPadTo))
    IN  IF ~CanReadWrite(c) THEN WriteResult(c, 0, "EINVAL", << >>, FALSE)
        ELSE pad(chopLoop(c, b, << >>))

\* Obfs4Conn.Write(b).  toPadTo is the sample padBurst draws, wr what the
\* write to the socket does; out holds the bytes that went out.  A panic
\* unwinds Write with err still nil.
Write(c, b, toPadTo, wr) ==
    LET fail(c1, err) == WriteResult(IF err = "panic" THEN c1
                                     ELSE setBroken(c1), 0, err, << >>, FALSE)
        send(padded) ==
            IF padded.err # "nil" THEN fail(padded.c, padded.err)
            ELSE IF wr # "ok"
            THEN WriteResult(setBroken(padded.c), 0, SockWriteErr(wr),
                             SockWritten(padded.burst, wr), TRUE)
            ELSE WriteResult(padded.c, Len(b), "nil", padded.burst, TRUE)
        pad(chopped) ==
            IF chopped.err # "nil" THEN fail(chopped.c, chopped.err)
            ELSE send(padBurst(chopped.c, chopped.burst, toPadTo))
    IN  IF ~CanReadWrite(c) THEN WriteResult(c, 0, "EINVAL", << >>, FALSE)
        ELSE pad(chopLoop(c, b, << >>))

ReadResult(c, av, n, err, out, blocked, io) ==
    [c |-> c, av |-> av, n |-> n, err |-> err, out |-> out,
     blocked |-> blocked, io |-> io]

\* What c.conn.Read(buf) returns to consumeFramedPackets when av has
\* arrived, and what it leaves; consumeFramedPackets does not read when
\* the connection is not usable.
sockRead(c, av, rdErr) ==
    IF ~isOk(c) THEN [data |-> << >>, err |-> "nil", rest |-> av]
    ELSE IF av = << >> THEN [data |-> << >>, err |-> rdErr, rest |-> av]
    ELSE LET n == Min(Len(av), consumeReadSize)
         IN  [data |-> Slice(av, 0, n), err |-> "nil",
              rest |-> Slice(av, n, Len(av))]

\* The loop of Read: consumeFramedPackets until a payload byte is
\* buffered or an error other than ErrAgain comes back.
RECURSIVE readLoop(_, _, _, _)
readLoop(c, av, rdErr, io) ==
    IF Len(c.receiveDecodedBuffer) # 0
    THEN ReadResult(c, av, 0, "nil", << >>, FALSE, io)
    ELSE IF isOk(c) /\ av = << >> /\ rdErr = "none"
    THEN ReadResult(c, av, 0, "nil", << >>, TRUE, io)
    ELSE LET consumed(rd, r) ==
                 IF r.err = "ErrAgain" \/ r.err = "nil"
                 THEN readLoop(r.c, rd.rest, rdErr, TRUE)
                 ELSE ReadResult(r.c, rd.rest, 0, r.err, << >>, FALSE,
                                 io \/ isOk(c))
             read(rd) == consumed(rd, consumeFramedPackets(c, "nil", rd, 0))
         IN  read(sockRead(c, av, rdErr))

\* A Read that does not look at the connection state first.
ReadUnchecked(c, av, lenB, rdErr) ==
    LET copy(r, n) ==
            IF r.blocked \/ r.err # "nil" THEN r
            ELSE ReadResult(
                   [r.c EXCEPT !.receiveDecodedBuffer = Slice(@, n, Len(@))],
                   r.av, n, "nil", Slice(r.c.receiveDecodedBuffer, 0, n),
                   FALSE, r.io)
        filled(r) == copy(r, Min(lenB, Len(r.c.receiveDecodedBuffer)))
    IN  filled(readLoop(c, av, rdErr, FALSE))

\* Obfs4Conn.Read(b), lenB being len(b).
Read(c, av, lenB, rdErr) ==
    LET copy(r, n) ==
            IF r.blocked \/ r.err # "nil" THEN r
            ELSE ReadResult(
                   [r.c EXCEPT !.receiveDecodedBuffer = Slice(@, n, Len(@))],
                   r.av, n, "nil", Slice(r.c.receiveDecodedBuffer, 0, n),
                   FALSE, r.io)
        filled(r) == copy(r, Min(lenB, Len(r.c.receiveDecodedBuffer)))
    IN  IF ~CanReadWrite(c)
        THEN ReadResult(c, av, 0, "EINVAL", << >>, FALSE, FALSE)
        ELSE filled(readLoop(c, av, rdErr, FALSE))

\* The loop of WriteTo: consumeFramedPackets until an error other than
\* ErrAgain comes back; io.EOF is returned as nil.
RECURSIVE writeToLoop(_, _, _, _, _, _, _)
writeToLoop(c, w, av, rdErr, n, out, io) ==
    IF isOk(c) /\ av = << >> /\ rdErr = "none"
    THEN ReadResult(c, av, n, "nil", out, TRUE, io)
    ELSE LET consumed(rd, r) ==
                 IF r.err = "ErrAgain" \/ r.err = "nil"
                 THEN writeToLoop(r.c, w, rd.rest, rdErr, n + r.n,
                                  out \o r.out, TRUE)
                 ELSE ReadResult(r.c, rd.rest, n + r.n,
                                 IF r.err = "EOF" THEN "nil" ELSE r.err,
                                 out \o r.out, FALSE, io \/ isOk(c))
             read(rd) == consumed(rd, consumeFramedPackets(c, w, rd, 0))
         IN  read(sockRead(c, av, rdErr))

\* Obfs4Conn.WriteTo(w).
WriteTo(c, w, av, rdErr) ==
    LET buffered == c.receiveDecodedBuffer
        flushed == [c EXCEPT !.receiveDecodedBuffer = << >>]
    IN  IF ~CanReadWrite(c)
        THEN ReadResult(c, av, 0, "EINVAL", << >>, FALSE, FALSE)
        ELSE IF Len(buffered) > 0 /\ w # "ok"
        THEN ReadResult(setBroken(c), av, 0, "EWRITER", << >>, FALSE, FALSE)
        ELSE IF Len(buffered) > 0
        THEN LET r == writeToLoop(flushed, w, av, rdErr, 0, << >>, FALSE)
             IN  [r EXCEPT !.out = buffered \o @]
        ELSE writeToLoop(c, w, av, rdErr, 0, << >>, FALSE)

\* Lengths of the slices handed to Write and to Read, and the writers
\* handed to WriteTo.
WriteLengths == {1, maxPacketPayloadLength + 1}
\* The padding lengths generateHandshake draws in a connection: the client
\* its longest, which makes a message of clientMaxHandshakeLength bytes,
\* the server its shortest.
ClientPadLengths == {clientMaxPadLength}
ServerPadLengths == {serverMinPadLength}
ReadLengths == {1, MaximumSegmentLength}
Writers == {"ok", "fail"}

\* The client dials: Dial up to the first read of clientHandshake.  Dial
\* closes the socket and returns no connection when the handshake fails.
DialSend(cfg, padLen, wr) ==
    /\ pc["cli"] = "new"
    /\ LET h == newClientHandshake(cfg)
           blob == clientGenerateHandshake(h.keypair, h.serverIdentity,
                                           padLen, getEpochHour(StartTime))
           c0 == conn["cli"]
           c1 == IF wr = "ok" THEN c0 ELSE setBroken(c0)
       IN  /\ net' = [net EXCEPT !["srv"] = @ \o SockWritten(blob, wr)]
           /\ conn' = [conn EXCEPT !["cli"] = c1]
           /\ sock' = [sock EXCEPT !["cli"] =
                         IF wr = "ok" THEN [@ EXCEPT !.rdDeadline = TRUE]
                         ELSE [@ EXCEPT !.closed = TRUE]]
           /\ pc' = [pc EXCEPT !["cli"] = IF wr = "ok" THEN "dialing"
                                          ELSE "gone"]
           /\ hs' = IF wr = "ok" THEN h ELSE Nil
           /\ lastOp' = IF wr = "ok" THEN lastOp
                        ELSE Op("Dial", "cli", SockWriteErr(wr), 0, c0, c1,
                                TRUE, FALSE, TRUE)
    /\ cfg = Server \/ wr = "ok"
    /\ Faulty({SockWriteErr(wr)}, cfg # Server)
    /\ UNCHANGED << avail, app, tamper, hsVars, frVars, fnVars >>

\* Dial from the first read of clientHandshake to its return.
DialFinish(rdErr, inCap) ==
    /\ pc["cli"] = "dialing"
    /\ rdErr \in ReadOutcomes("cli")
    /\ \E r \in {clientHandshakeRecv(conn["cli"], hs, avail["cli"], rdErr, inCap)} :
       LET c0 == conn["cli"]
           failed == r.err # "nil"
           c1 == IF failed /\ r.err # "panic" THEN setBroken(r.c) ELSE r.c
       IN  /\ ~r.blocked
           /\ conn' = [conn EXCEPT !["cli"] = c1]
           /\ avail' = [avail EXCEPT !["cli"] = r.av]
           /\ sock' = [sock EXCEPT !["cli"] =
                         IF failed THEN [@ EXCEPT !.closed = TRUE]
                         ELSE [@ EXCEPT !.rdDeadline = FALSE]]
           /\ pc' = [pc EXCEPT !["cli"] = IF failed THEN "gone" ELSE "ready"]
           /\ hs' = Nil
           /\ lastOp' = Op("Dial", "cli", r.err, 0, c0, c1, TRUE, FALSE, failed)
           /\ Faulty({r.err}, r.err = "timeout")
    /\ UNCHANGED << net, app, tamper, hsVars, frVars, fnVars >>

\* The values an input of the handshake is drawn from: all of them where
\* the handshake gets to use the input, else the first only.
HandshakeInputs(used, values) ==
    IF used THEN values ELSE {CHOOSE v \in values : TRUE}

\* A call that returns at once and leaves everything as it was.
Rejected(op, e, err) ==
    /\ lastOp' = Op(op, e, err, 0, conn[e], conn[e], FALSE, FALSE,
                    sock[e].closed)
    /\ UNCHANGED << conn, sock, net, avail, pc, hs, app, tamper, faults >>

\* Obfs4Conn.ServerHandshake() on the connection of endpoint e.  A panic
\* ends the process of the endpoint.
ServerHandshake(e) ==
    /\ pc[e] = "ready"
    /\ LET c0 == conn[e]
       IN  IF CanReadWrite(c0) THEN Rejected("ServerHandshake", e, "nil")
           ELSE IF ~CanHandshake(c0)
           THEN Rejected("ServerHandshake", e, "EINVAL")
           ELSE \E rdErr \in ReadOutcomes(e) \cup {"timeout"}, inCap \in BOOLEAN :
                \E rx \in {serverHandshakeRecv(c0, avail[e], rdErr, inCap)} :
                \E parsed \in {~rx.blocked /\ rx.err = "nil"} :
                \E padLen \in HandshakeInputs(parsed, ServerPadLengths), toPadTo \in HandshakeInputs(parsed, SampleValues), wrBlob \in HandshakeInputs(parsed, WriteOutcomes) :
                \E wrBurst \in HandshakeInputs(parsed /\ wrBlob = "ok", WriteOutcomes) :
                \E late \in HandshakeInputs(~parsed \/ wrBurst # "ok" \/ wrBlob # "ok", BOOLEAN) :
                \E r \in {serverHandshake(c0, avail[e], rdErr, inCap, padLen, toPadTo, wrBlob, wrBurst)} :
                LET c1 == IF r.err = "panic" THEN r.c
                          ELSE [r.c EXCEPT !.listener = FALSE]
                    sk == [sock[e] EXCEPT !.rdDeadline = r.deadline]
                    cad == closeAfterDelay(sk, r.av, late,
                                           Listener.closeDelayBytes)
                    failed == r.err \notin {"nil", "panic"}
                    closed == IF r.err = "nil" THEN sk.closed
                              ELSE IF r.err = "panic" THEN TRUE
                              ELSE cad.sock.closed
                IN  /\ c0.isServer
                    /\ ~r.blocked
                    /\ conn' = [conn EXCEPT ![e] = c1]
                    /\ net' = [net EXCEPT ![Peer(e)] = @ \o r.out]
                    /\ avail' = [avail EXCEPT ![e] = IF failed THEN cad.av
                                                     ELSE r.av]
                    /\ sock' = [sock EXCEPT ![e] =
                                  IF failed THEN cad.sock
                                  ELSE [sk EXCEPT !.closed = closed]]
                    /\ pc' = [pc EXCEPT ![e] = IF r.err = "panic" THEN "gone"
                                               ELSE @]
                    /\ lastOp' = Op("ServerHandshake", e, r.err, 0, c0, c1,
                                    TRUE, failed, closed)
                    /\ Faulty({r.err}, r.err = "timeout")
                    /\ UNCHANGED << hs, app, tamper >>
    /\ UNCHANGED << hsVars, frVars, fnVars >>

\* A Close() that reports nothing about a socket that was already closed.
CloseWithoutError(c, sk) ==
    [c |-> [c EXCEPT !.state = "Closed"],
     sock |-> [sk EXCEPT !.closed = TRUE],
     err |-> "nil"]

\* Obfs4Conn.Close(): the connection and the socket after it, and the
\* error c.conn.Close() returns.
Close(c, sk) ==
    [c |-> [c EXCEPT !.state = "Closed"],
     sock |-> [sk EXCEPT !.closed = TRUE],
     err |-> IF sk.closed THEN "EBADF" ELSE "nil"]

\* Obfs4Conn.SetReadDeadline(t); t tells whether a deadline is set that
\* will pass, or none.
SetReadDeadline(c, sk, t) ==
    IF ~CanReadWrite(c) THEN [sock |-> sk, err |-> "EINVAL", io |-> FALSE]
    ELSE [sock |-> [sk EXCEPT !.rdDeadline = t], err |-> "nil", io |-> FALSE]

\* The nonce counters of the frames the bytes of a Write go out in.
frameCounters(c, n) ==
    [ i \in 1..n |-> c.encoder.nonce.counter
                        + ((i - 1) \div maxPacketPayloadLength) ]

\* The caller of endpoint e calls Write.
CallWrite(e) ==
    /\ pc[e] = "ready"
    /\ CanReadWrite(conn[e]) => app["cli"].writes + app["srv"].writes < MaxWrites
    /\ \E n \in WriteLengths, toPadTo \in SampleValues, wr \in WriteOutcomes :
         \E b \in {AppBytes(e, Len(app[e].written), n)} :
         \E r \in {Write(conn[e], b, toPadTo, wr)} :
         LET c0 == conn[e]
             taken == CanReadWrite(c0)
         IN  /\ conn' = [conn EXCEPT ![e] = r.c]
             /\ net' = [net EXCEPT ![Peer(e)] = @ \o r.out]
             /\ app' = IF ~taken THEN app
                       ELSE [app EXCEPT
                               ![e].written = @ \o b,
                               ![e].okWritten = IF r.err = "nil" THEN @ \o b
                                                ELSE @,
                               ![e].frameOf = @ \o frameCounters(c0, n),
                               ![e].writes = @ + 1]
             /\ pc' = [pc EXCEPT ![e] = IF r.err = "panic" THEN "gone" ELSE @]
             /\ lastOp' = Op("Write", e, r.err, r.n, c0, r.c, r.io, FALSE,
                             sock[e].closed)
             /\ Faulty({r.err}, FALSE)
    /\ UNCHANGED << sock, avail, hs, tamper, hsVars, frVars, fnVars >>

\* The caller of endpoint e calls Read.
CallRead(e) ==
    /\ pc[e] = "ready"
    /\ \E lenB \in ReadLengths, rdErr \in ReadOutcomes(e) :
         \E r \in {Read(conn[e], avail[e], lenB, rdErr)} :
         LET c0 == conn[e]
         IN  /\ ~r.blocked
             /\ conn' = [conn EXCEPT ![e] = r.c]
             /\ avail' = [avail EXCEPT ![e] = r.av]
             /\ app' = [app EXCEPT ![e].read = @ \o r.out]
             /\ lastOp' = Op("Read", e, r.err, r.n, c0, r.c, r.io, FALSE,
                             sock[e].closed)
             /\ Faulty({r.err}, FALSE)
    /\ UNCHANGED << sock, net, pc, hs, tamper, hsVars, frVars, fnVars >>

\* The caller of endpoint e calls WriteTo.  The writer was handed payload
\* exactly when a writer that takes everything would have got some.
CallWriteTo(e) ==
    /\ pc[e] = "ready"
    /\ \E w \in Writers, rdErr \in ReadOutcomes(e) :
         \E r \in {WriteTo(conn[e], w, avail[e], rdErr)} :
         \E handed \in {w # "ok" /\ WriteTo(conn[e], "ok", avail[e], rdErr).out # << >>} :
         LET c0 == conn[e]
         IN  /\ ~r.blocked
             /\ conn' = [conn EXCEPT ![e] = r.c]
             /\ avail' = [avail EXCEPT ![e] = r.av]
             /\ app' = [app EXCEPT ![e].copied = @ \o r.out,
                                   ![e].usedWriteTo = @ \/ CanReadWrite(c0)]
             /\ lastOp' = [Op("WriteTo", e, r.err, r.n, c0, r.c, r.io, FALSE, sock[e].closed) EXCEPT !.refused = handed]
             /\ Faulty({r.err}, FALSE)
    /\ UNCHANGED << sock, net, pc, hs, tamper, hsVars, frVars, fnVars >>

\* The caller of endpoint e calls Close.  Closing an established
\* connection counts among the disruptions of the run.
CallClose(e) ==
    /\ pc[e] = "ready"
    /\ LET r == Close(conn[e], sock[e])
       IN  /\ conn' = [conn EXCEPT ![e] = r.c]
           /\ sock' = [sock EXCEPT ![e] = r.sock]
           /\ lastOp' = Op("Close", e, r.err, 0, conn[e], r.c, FALSE, FALSE,
                           TRUE)
    /\ Faulty({}, CanReadWrite(conn[e]))
    /\ UNCHANGED << net, avail, pc, hs, app, tamper, hsVars, frVars, fnVars >>

\* The caller of endpoint e calls SetReadDeadline.
CallSetReadDeadline(e, t) ==
    /\ pc[e] = "ready"
    /\ LET r == SetReadDeadline(conn[e], sock[e], t)
       IN  /\ sock' = [sock EXCEPT ![e] = r.sock]
           /\ lastOp' = Op("SetReadDeadline", e, r.err, 0, conn[e], conn[e],
                           r.io, FALSE, sock[e].closed)
           /\ Faulty({}, r.sock.rdDeadline /\ ~sock[e].rdDeadline)
    /\ UNCHANGED << conn, net, avail, pc, hs, app, tamper, hsVars, frVars, fnVars >>

\* The next k bytes sent toward endpoint e arrive at its socket.  Arrival
\* of less than all that is on the way counts among the disruptions.
Deliver(e, k) ==
    /\ k >= 1
    /\ k <= Len(net[e])
    /\ avail' = [avail EXCEPT ![e] = @ \o Slice(net[e], 0, k)]
    /\ net' = [net EXCEPT ![e] = Slice(@, k, Len(@))]
    /\ lastOp' = NoOp
    /\ Faulty({}, k < Len(net[e]))
    /\ UNCHANGED << conn, sock, pc, hs, app, tamper, hsVars, frVars, fnVars >>

\* The peer implementation at endpoint e sends, as the first packet of its
\* side, a PRNG_SEED packet with the first n bytes of a seed of its own.
SendSeed(e, n) ==
    /\ pc[e] = "ready"
    /\ CanReadWrite(conn[e])
    /\ conn[e].encoder.nonce.counter = nonceInit(<< >>).counter
    /\ \E r \in {producePacket(conn[e], << >>, packetTypePrngSeed, Slice(SeedBytes("peer"), 0, n), 0)} :
         /\ r.err = "nil"
         /\ conn' = [conn EXCEPT ![e] = r.c]
         /\ net' = [net EXCEPT ![Peer(e)] = @ \o r.burst]
    /\ lastOp' = NoOp
    /\ UNCHANGED << sock, avail, pc, hs, app, tamper, faults, hsVars, frVars, fnVars >>

\* The positions of the first bytes of the tags and of the ciphertexts of
\* the frames in data.
BodyStarts(data, kind) ==
    { i \in 1..Len(data) : data[i].t = kind /\ data[i].i = 1 }

\* The first byte of the tag or of the ciphertext of the next frame on its
\* way to endpoint e is altered; tamper keeps the nonce counter of the
\* frame.
Tamper(e, kind) ==
    /\ tamper.ep = "none"
    /\ BodyStarts(net[e], kind) # {}
    /\ LET i == CHOOSE j \in BodyStarts(net[e], kind) :
                    \A k \in BodyStarts(net[e], kind) : j <= k
       IN  /\ net' = [net EXCEPT ![e][i] = FlipByte(@)]
           /\ tamper' = [ep |-> e,
                         ctr |-> IF kind = "tag" THEN net[e][i].tn.nc
                                 ELSE net[e][i].cn.nc]
    /\ lastOp' = NoOp
    /\ Faulty({}, TRUE)
    /\ UNCHANGED << conn, sock, avail, pc, hs, app, hsVars, frVars, fnVars >>

(***************************************************************************)
(* The server state (transports/obfs4/statefile.go).  A string of args or  *)
(* of the state file is what it encodes, of which kind, and how; a file is *)
(* absent, holds a JSON object of four strings, or holds something that is *)
(* not JSON.                                                               *)
(***************************************************************************)
stateFile == "obfs4_state.json"
nodeIDArg == "node-id"
privateKeyArg == "private-key"
seedArg == "drbg-seed"

\* Number of distinct values csrand, ntor.NewKeypair and drbg.NewSeed draw.
MaxFresh == 2

NoString == [enc |-> "none", kind |-> "none", v |-> 0]
Base64(kind, v) == [enc |-> "base64", kind |-> kind, v |-> v]
Hex(kind, v) == [enc |-> "hex", kind |-> kind, v |-> v]

jsonServerState(nodeID, privateKey, publicKey, drbgSeed) ==
    [NodeID |-> nodeID, PrivateKey |-> privateKey, PublicKey |-> publicKey,
     DrbgSeed |-> drbgSeed]

obfs4ServerState(nodeID, identityKey, drbgSeed) ==
    [nodeID |-> nodeID, identityKey |-> identityKey, drbgSeed |-> drbgSeed]

NoState == obfs4ServerState(-1, -1, -1)

\* args.Get(key): the value, and whether the argument is there.
Get(args, key) ==
    IF key \in DOMAIN args THEN [v |-> args[key], ok |-> TRUE]
    ELSE [v |-> NoString, ok |-> FALSE]

NoFile == [exists |-> FALSE, json |-> FALSE,
           js |-> jsonServerState(NoString, NoString, NoString, NoString)]
JSONFile(js) == [exists |-> TRUE, json |-> TRUE, js |-> js]
NotJSON == [exists |-> TRUE, json |-> FALSE,
            js |-> jsonServerState(NoString, NoString, NoString, NoString)]

\* The result of a step of serverStateFromArgs: the files, the JSON state,
\* the server state, the error, and whether the state file was read and
\* whether it was written.
StateResult(files, js, st, err, reads, writes) ==
    [fs |-> files, js |-> js, st |-> st, err |-> err, reads |-> reads,
     writes |-> writes]

\* serverStateFromJSONServerState(js): ntor.NodeIDFromBase64,
\* ntor.KeypairFromBase64, base64 decoding and drbg.SeedFromBytes each
\* fail on a string that is not the base64 of a value of the right length.
serverStateFromJSONServerState(js) ==
    LET decodes(s, kind) == s.enc = "base64" /\ s.kind = kind
    IN  IF ~decodes(js.NodeID, nodeIDArg)
        THEN [st |-> NoState, err |-> "bad node-id"]
        ELSE IF ~decodes(js.PrivateKey, privateKeyArg)
        THEN [st |-> NoState, err |-> "bad private-key"]
        ELSE IF ~decodes(js.DrbgSeed, seedArg)
        THEN [st |-> NoState, err |-> "bad drbg-seed"]
        ELSE [st |-> obfs4ServerState(js.NodeID.v, js.PrivateKey.v,
                                      js.DrbgSeed.v),
              err |-> "nil"]

\* newJSONServerState(stateDir, js): fresh values, encoded into js and
\* written to the state file; wr tells whether ioutil.WriteFile succeeds.
newJSONServerState(files, stateDir, js, fresh, wr) ==
    LET js1 == jsonServerState(Base64(nodeIDArg, fresh.id),
                               Base64(privateKeyArg, fresh.key),
                               Base64("public-key", fresh.key),
                               Base64(seedArg, fresh.seed))
    IN  IF wr # "ok"
        THEN StateResult(files, js1, NoState, wr, FALSE, TRUE)
        ELSE StateResult([files EXCEPT ![stateDir].state = JSONFile(js1)],
                         js1, NoState, "nil", FALSE, TRUE)

\* jsonServerStateFromFile(stateDir, js); rd tells whether ioutil.ReadFile
\* can read a file that exists.
jsonServerStateFromFile(files, stateDir, js, fresh, rd, wr) ==
    LET f == files[stateDir].state
        created(r) == [r EXCEPT !.reads = TRUE]
    IN  IF ~f.exists
        THEN created(newJSONServerState(files, stateDir, js, fresh, wr))
        ELSE IF rd # "ok"
        THEN StateResult(files, js, NoState, rd, TRUE, FALSE)
        ELSE IF ~f.json
        THEN StateResult(files, js, NoState, "bad json", TRUE, FALSE)
        ELSE StateResult(files, f.js, NoState, "nil", TRUE, FALSE)

\* A serverStateFromArgs that turns to the state file whenever an argument
\* is missing.
serverStateFromArgsLenient(files, stateDir, args, fresh, rd, wr) ==
    LET nodeID == Get(args, nodeIDArg)
        privKey == Get(args, privateKeyArg)
        seed == Get(args, seedArg)
        js == jsonServerState(nodeID.v, privKey.v, NoString, seed.v)
        decoded(r, d) == [r EXCEPT !.st = d.st, !.err = d.err]
        finish(r) ==
            IF r.err # "nil" THEN r
            ELSE decoded(r, serverStateFromJSONServerState(r.js))
    IN  IF ~privKey.ok \/ ~nodeID.ok \/ ~seed.ok
        THEN finish(jsonServerStateFromFile(files, stateDir, js, fresh, rd, wr))
        ELSE finish(StateResult(files, js, NoState, "nil", FALSE, FALSE))

\* serverStateFromArgs(stateDir, args)
serverStateFromArgs(files, stateDir, args, fresh, rd, wr) ==
    LET nodeID == Get(args, nodeIDArg)
        privKey == Get(args, privateKeyArg)
        seed == Get(args, seedArg)
        js == jsonServerState(nodeID.v, privKey.v, NoString, seed.v)
        missing(arg) == StateResult(files, js, NoState, arg, FALSE, FALSE)
        decoded(r, d) == [r EXCEPT !.st = d.st, !.err = d.err]
        finish(r) ==
            IF r.err # "nil" THEN r
            ELSE decoded(r, serverStateFromJSONServerState(r.js))
    IN  IF ~privKey.ok /\ ~nodeID.ok /\ ~seed.ok
        THEN finish(jsonServerStateFromFile(files, stateDir, js, fresh, rd, wr))
        ELSE IF ~privKey.ok THEN missing("missing private-key")
        ELSE IF ~nodeID.ok THEN missing("missing node-id")
        ELSE IF ~seed.ok THEN missing("missing drbg-seed")
        ELSE finish(StateResult(files, js, NoState, "nil", FALSE, FALSE))

(***************************************************************************)
(* The state specification SpecState.  The server factory is built again   *)
(* and again (Transport.ServerFactory calls serverStateFromArgs) with any  *)
(* arguments, over a working directory and a state directory whose state   *)
(* file the operator may remove or overwrite in between.                   *)
(***************************************************************************)
\* The state directories: "" stands for no directory given, which makes
\* path.Join name the file in the working directory.
StateDirs == {"", "pt_state"}

\* The value an argument encodes; the values drawn afresh are 1..MaxFresh.
ArgValue == MaxFresh + 1

\* Every pt.Args over the three arguments, each given in base64 or in
\* hexadecimal.
ArgSets ==
    UNION { { [ k \in names |-> IF k \in hex THEN Hex(k, ArgValue)
                                ELSE Base64(k, ArgValue) ] :
                hex \in SUBSET names } :
              names \in SUBSET {nodeIDArg, privateKeyArg, seedArg} }

FreshValues == { [id |-> v, key |-> v, seed |-> v] : v \in 1..MaxFresh }

FileOutcomes == {"ok", "EACCES"}

\* What the operator may leave in place of the state file.
OperatorFiles ==
    { NoFile, NotJSON,
      JSONFile(jsonServerState(Hex(nodeIDArg, ArgValue),
                               Base64(privateKeyArg, ArgValue),
                               Base64("public-key", ArgValue),
                               Base64(seedArg, ArgValue))) }

NoCall == [called |-> FALSE, stateDir |-> "", args |-> << >>,
           before |-> << >>, after |-> << >>, fresh |-> 0, rd |-> "ok",
           wr |-> "ok", err |-> "nil", st |-> NoState, reads |-> FALSE,
           writes |-> FALSE]

StateInit ==
    /\ fs = [ d \in StateDirs |-> [state |-> NoFile, bridgeline |-> NoFile] ]
    /\ lastState = NoCall

\* serverStateFromArgs(stateDir, args) is called and returns.
CallServerStateFromArgs(stateDir, args) ==
    \E rd \in HandshakeInputs(DOMAIN args = {} /\ fs[stateDir].state.exists, FileOutcomes), wr \in HandshakeInputs(DOMAIN args = {} /\ ~fs[stateDir].state.exists, FileOutcomes), fresh \in HandshakeInputs(DOMAIN args = {} /\ ~fs[stateDir].state.exists, FreshValues) :
    \E r \in {serverStateFromArgs(fs, stateDir, args, fresh, rd, wr)} :
        /\ fs' = r.fs
        /\ lastState' = [called |-> TRUE, stateDir |-> stateDir,
                         args |-> args, before |-> fs, after |-> r.fs,
                         fresh |-> fresh.id, rd |-> rd, wr |-> wr,
                         err |-> r.err, st |-> r.st, reads |-> r.reads,
                         writes |-> r.writes]
        /\ UNCHANGED << lastPad, lastSeg, lastFilter, gor, lock, ord, hsVars, frVars, connVars, lastBuf, fnMoreVars >>

\* The operator removes or overwrites the state file of a directory.
EditStateFile(stateDir, f) ==
    /\ fs[stateDir].state # f
    /\ fs' = [fs EXCEPT ![stateDir].state = f]
    /\ UNCHANGED << lastState, lastPad, lastSeg, lastFilter, gor, lock, ord, hsVars, frVars, connVars, lastBuf, fnMoreVars >>

(***************************************************************************)
(* The segmentation specification SpecSeg.  A handshake message arrives in *)
(* pieces: the parser of the receiving side is handed the first n bytes of *)
(* a valid message, as serverHandshake and clientHandshake hand it what    *)
(* has accumulated in the receive buffer, and at last the whole message.   *)
(***************************************************************************)
\* The record of a parse: the receiving side, the padding length and the
\* length of the message, the number of its bytes handed to the parser,
\* whether the buffer's capacity covers the MAC, and the error.
SegRecord(side, padLen, msg, n, inCap, r) ==
    [side |-> side, padLen |-> padLen, len |-> Len(msg), n |-> n,
     inCap |-> inCap, err |-> r.err]

\* The server parses the first n bytes of a client's message.
ParseClientPiece(padLen, n, inCap) ==
    \E msg \in {clientGenerateHandshake(<< "x", 1 >>, Public(Server.identity), padLen, getEpochHour(hsNow))} :
        /\ n <= Len(msg)
        /\ lastSeg' = SegRecord("server", padLen, msg, n, inCap,
                                parseClientHandshake(Server.identity,
                                                     Server.nodeID,
                                                     << "y", 1 >>,
                                                     Slice(msg, 0, n), hsNow,
                                                     inCap))
        /\ UNCHANGED << fs, lastState, lastPad, lastFilter, gor, lock, ord, hsVars, frVars, connVars, lastBuf, fnMoreVars >>

\* The client parses the first n bytes of the server's response to its
\* message.
ParseServerPiece(padLen, n, inCap) ==
    \E hello \in {clientGenerateHandshake(<< "x", 1 >>, Public(Server.identity), clientMinPadLength, getEpochHour(hsNow))} :
    \E parsed \in {parseClientHandshake(Server.identity, Server.nodeID, << "y", 1 >>, hello, hsNow, TRUE)} :
    \E msg \in {serverGenerateHandshake(<< "y", 1 >>, Server.identity, parsed.auth, padLen, hsNow)} :
        /\ n <= Len(msg)
        /\ lastSeg' = SegRecord("client", padLen, msg, n, inCap,
                                parseServerHandshake(<< "x", 1 >>,
                                                     Server.nodeID,
                                                     Public(Server.identity),
                                                     FormatInt(getEpochHour(hsNow)),
                                                     Slice(msg, 0, n), inCap))
        /\ UNCHANGED << fs, lastState, lastPad, lastFilter, gor, lock, ord, hsVars, frVars, connVars, lastBuf, fnMoreVars >>

(***************************************************************************)
(* The mark specification SpecMark: the server's parser is handed what has *)
(* accumulated of the bytes a peer sent, which need not be a handshake     *)
(* message: a representative, then padding without end, with the mark of   *)
(* the representative at some offset or nowhere, and behind the mark the   *)
(* MAC of the bytes up to it or padding.  serverHandshake reads up to      *)
(* clientMaxHandshakeLength bytes at a time and parses after each read, so *)
(* the parser sees less than twice that many bytes.                        *)
(***************************************************************************)
MaxArrived == 2 * clientMaxHandshakeLength - 1

\* The first n bytes the peer sent; markAt is the offset of the mark, -1
\* when there is none; withMac tells whether the MAC follows the mark, as
\* in the message of a client with markAt - RepresentativeLength bytes of
\* padding.
MarkedBytes(n, markAt, withMac, now) ==
    LET X == Representative(<< "x", 1 >>)
        mark == HmacSum(Public(Server.identity), X)
    IN  IF markAt = -1 THEN Slice(X \o makePad(MaxArrived), 0, n)
        ELSE IF ~withMac
        THEN Slice(X \o makePad(markAt - RepresentativeLength) \o mark \o makePad(MaxArrived), 0, n)
        ELSE Slice(clientGenerateHandshake(<< "x", 1 >>, Public(Server.identity), markAt - RepresentativeLength, getEpochHour(now)) \o makePad(MaxArrived), 0, n)

\* No parse yet.
MarkIdle == [called |-> FALSE, n |-> 0, markAt |-> -1, withMac |-> FALSE, inCap |-> TRUE, err |-> "none"]

\* The server parses the first n bytes.
ParseMarked(n, markAt, withMac, inCap) ==
    /\ withMac => markAt # -1
    /\ \E r \in {parseClientHandshake(Server.identity, Server.nodeID, << "y", 1 >>, MarkedBytes(n, markAt, withMac, hsNow), hsNow, inCap)} :
           lastMark' = [called |-> TRUE, n |-> n, markAt |-> markAt, withMac |-> withMac, inCap |-> inCap, err |-> r.err]
    /\ UNCHANGED << hsVars, frVars, connVars, fnCallVars, lastPkt, cadRun, fnConcVars >>

(***************************************************************************)
(* The delay specification SpecDelay: closeAfterDelay runs on a connection *)
(* accepted at time 0, step by step: the test of the deadline and          *)
(* SetReadDeadline, then one c.conn.Read per step, each blocking until a   *)
(* byte has arrived, the peer has closed or the read deadline has passed;  *)
(* the deferred Close runs with the step that returns.  The peer sends     *)
(* bytes and closes when it likes; the clock advances.                     *)
(***************************************************************************)
\* closeDelay seconds plus connectionTimeout, in ticks of the clock.
CadDelay == 2

\* Bytes the peer sends at most.
MaxPeerBytes == 2 * MaximumSegmentLength

\* Values of the listener's closeDelayBytes.
CloseDelayBytes == {0, 1, MaximumSegmentLength + 1}

\* time.Now().After(deadline)
deadlinePassed(now, deadline) == now > deadline

\* A c.conn.Read that no read deadline ends.
readReturnsNoDeadline(arrived, peerClosed, now, deadline) ==
    arrived > 0 \/ peerClosed

\* c.conn.Read(buf[:]) returns: a byte has arrived, the peer has closed,
\* or the read deadline set by SetReadDeadline(deadline) has come.
readReturns(arrived, peerClosed, now, deadline) ==
    arrived > 0 \/ peerClosed \/ now >= deadline

\* One c.conn.Read(buf[:]) of the loop, when it returns: the bytes it
\* took and its error.  Past the deadline it fails whatever has arrived;
\* with nothing arrived it fails with EOF.
discardRead(arrived, now, deadline) ==
    IF now >= deadline THEN [n |-> 0, err |-> "timeout"]
    ELSE IF arrived = 0 THEN [n |-> 0, err |-> "EOF"]
    ELSE [n |-> Min(arrived, MaximumSegmentLength), err |-> "nil"]

CadInit ==
    cadRun = [pc |-> "idle", now |-> 0, deadline |-> CadDelay, budget |-> 0,
           late |-> FALSE, deadlineSet |-> FALSE, discarded |-> 0,
           reads |-> 0, err |-> "nil", closed |-> FALSE, avail |-> 0,
           sent |-> 0, peerClosed |-> FALSE]

\* closeAfterDelay is called on a listener with closeDelayBytes = budget:
\* past the deadline it returns, and so it does when SetReadDeadline
\* fails or nothing is to be discarded; the deferred Close runs then.
CadStart(budget, setErr) ==
    /\ cadRun.pc = "idle"
    /\ LET late == deadlinePassed(cadRun.now, cadRun.deadline)
           returns == late \/ setErr \/ ~(0 < budget)
       IN  cadRun' = [cadRun EXCEPT !.pc = IF returns THEN "done" ELSE "loop",
                              !.budget = budget,
                              !.late = late,
                              !.deadlineSet = ~late /\ ~setErr,
                              !.err = IF ~late /\ setErr THEN "EINVAL" ELSE "nil",
                              !.closed = returns]
    /\ UNCHANGED << hsVars, frVars, connVars, fnCallVars, lastPkt, lastMark, fnConcVars >>

\* One turn of the loop: the read returns; on an error, or when the bytes
\* discarded reach closeDelayBytes, closeAfterDelay returns and the
\* deferred Close runs.
CadRead ==
    /\ cadRun.pc = "loop"
    /\ readReturns(cadRun.avail, cadRun.peerClosed, cadRun.now, cadRun.deadline)
    /\ LET r == discardRead(cadRun.avail, cadRun.now, cadRun.deadline)
           returns == r.err # "nil" \/ ~(cadRun.discarded + r.n < cadRun.budget)
       IN  cadRun' = [cadRun EXCEPT !.pc = IF returns THEN "done" ELSE "loop",
                              !.discarded = @ + r.n,
                              !.avail = @ - r.n,
                              !.reads = @ + 1,
                              !.err = r.err,
                              !.closed = returns]
    /\ UNCHANGED << hsVars, frVars, connVars, fnCallVars, lastPkt, lastMark, fnConcVars >>

\* k more bytes of the peer arrive.
CadPeerSend(k) ==
    /\ ~cadRun.peerClosed
    /\ ~cadRun.closed
    /\ cadRun.sent + k <= MaxPeerBytes
    /\ cadRun' = [cadRun EXCEPT !.avail = @ + k, !.sent = @ + k]
    /\ UNCHANGED << hsVars, frVars, connVars, fnCallVars, lastPkt, lastMark, fnConcVars >>

\* The peer closes its side.
CadPeerClose ==
    /\ ~cadRun.peerClosed
    /\ cadRun' = [cadRun EXCEPT !.peerClosed = TRUE]
    /\ UNCHANGED << hsVars, frVars, connVars, fnCallVars, lastPkt, lastMark, fnConcVars >>

\* The clock advances, up to one tick past the deadline.
CadTick ==
    /\ cadRun.now <= cadRun.deadline
    /\ cadRun' = [cadRun EXCEPT !.now = @ + 1]
    /\ UNCHANGED << hsVars, frVars, connVars, fnCallVars, lastPkt, lastMark, fnConcVars >>

(***************************************************************************)
(* The filter specification SpecFilter: testAndSet is called on the replay *)
(* filter with any of a few byte strings and any of a few readings of the  *)
(* clock, in any order; presented counts the calls.                        *)
(***************************************************************************)
MaxFilterCalls == maxFilterSize + 2

FilterBufs == { << [t |-> "mac", v |-> i] >> : i \in 1..(maxFilterSize + 2) }

FilterTimes == { StartTime + k * ClockStep : k \in 0..MaxTicks }

\* No call of testAndSet yet.
NoFilterCall == [called |-> FALSE, now |-> 0, hash |-> SipHash(FilterKey, << >>), before |-> newReplayFilter, seen |-> FALSE]

\* replayFilter.testAndSet(now, buf) is called and returns; lastFilter keeps
\* its arguments, the filter it found and its result.
CallTestAndSet(now, buf) ==
    /\ presented < MaxFilterCalls
    /\ \E r \in {testAndSet(rf, FilterKey, now, buf)} :
           /\ rf' = r.f
           /\ lastFilter' = [called |-> TRUE, now |-> now, hash |-> SipHash(FilterKey, buf), before |-> rf, seen |-> r.seen]
    /\ presented' = presented + 1
    /\ UNCHANGED << hsNow, hsTicks, sess, captured, lastParse, frVars, connVars, fs, lastState, lastPad, lastSeg, gor, lock, ord, lastBuf, fnMoreVars >>

(***************************************************************************)
(* The frame order specification SpecOrder: an encoder seals one frame     *)
(* after another; the network hands whole frames to the decoder's buffer   *)
(* in any order, any of them never, once or again; Decode is called at any *)
(* time until it returns a fatal error.  ord keeps the frames sent with    *)
(* their payloads, the indices of the frames handed over, the number of    *)
(* frames Decode has returned, and the latest Decode: its error, its       *)
(* output and the decoder's nonce counter before and after.                *)
(***************************************************************************)
\* Frames handed to the decoder in one run.
MaxDeliveries == 3

\* Frames the encoder seals in one run.
MaxSent == MaxInFlight + 2

OrderInit ==
    ord = [sent |-> << >>, delivered |-> << >>, opened |-> 0,
           last |-> [err |-> "none", out |-> << >>, before |-> 0, after |-> 0]]

\* The sender encodes a payload of n bytes.
OrderSend(n) ==
    /\ Len(ord.sent) < MaxSent
    /\ \E payload \in {Payload(Len(ord.sent) + 1, n)} :
       \E r \in {Encode(enc, payload)} :
           /\ r.err = "nil"
           /\ enc' = r.encoder
           /\ ord' = [ord EXCEPT !.sent = Append(@, [frame |-> r.frame, payload |-> payload])]
    /\ UNCHANGED << dec, wire, rxBuf, inFlight, lastEnc, lastDec, sealed, tampered, hsVars, connVars, fs, lastState, lastPad, lastSeg, lastFilter, gor, lock, lastBuf, fnMoreVars >>

\* The network hands the i-th frame sent to the decoder's buffer.
OrderDeliver(i) ==
    /\ i \in 1..Len(ord.sent)
    /\ Len(ord.delivered) < MaxDeliveries
    /\ rxBuf' = rxBuf \o ord.sent[i].frame
    /\ ord' = [ord EXCEPT !.delivered = Append(@, i)]
    /\ UNCHANGED << enc, dec, wire, inFlight, lastEnc, lastDec, sealed, tampered, hsVars, connVars, fs, lastState, lastPad, lastSeg, lastFilter, gor, lock, lastBuf, fnMoreVars >>

\* The receiver calls Decode on its buffer; other is what a length field
\* that is not the one of the frame the decoder expects deobfuscates to.
OrderDecode(other) ==
    /\ ~DecodeFatal(ord.last.err)
    /\ \E r \in {Decode(dec, rxBuf, other)} :
           /\ dec' = r.decoder
           /\ rxBuf' = r.data
           /\ ord' = [ord EXCEPT !.opened = IF r.err = "nil" THEN @ + 1 ELSE @,
                                 !.last = [err |-> r.err, out |-> r.out, before |-> dec.nonce.counter, after |-> r.decoder.nonce.counter]]
    /\ UNCHANGED << enc, wire, inFlight, lastEnc, lastDec, sealed, tampered, hsVars, connVars, fs, lastState, lastPad, lastSeg, lastFilter, gor, lock, lastBuf, fnMoreVars >>

\* Payload lengths of the frames sent: one byte, the largest.
OrderLengths == {1, MaximumFramePayloadLength}

(***************************************************************************)
(* The buffered-frame specification SpecBuffered.  The server completes    *)
(* its handshake, sends its PRNG_SEED burst and writes n bytes; the        *)
(* client's clientHandshake reads the response and the first k bytes of    *)
(* what the server sent after it in one c.conn.Read (hsBuf holds           *)
(* serverMaxHandshakeLength = 1460 bytes, the shortest response has 128    *)
(* and a frame 21 and more), and leaves those k bytes in c.receiveBuffer   *)
(* (obfs4.go:178-213).  The client's caller then calls Read while nothing  *)
(* more arrives: the socket read blocks (rdErr "none") or fails.           *)
(***************************************************************************)
\* The key seed of the handshake that was made.
BufferedSeed == << "ks", 1 >>

\* The server's connection as serverHandshake leaves it before it sends.
BufferedServer ==
    [NewConn(TRUE, Listener.seed) EXCEPT !.state = "Established", !.encoder = NewEncoder(Kdf(BufferedSeed, 2)), !.decoder = NewDecoder(Kdf(BufferedSeed, 1))]

\* The PRNG_SEED packet of serverHandshake (obfs4.go:278-282).
BufferedSeedPacket ==
    producePacket(BufferedServer, << >>, packetTypePrngSeed, Listener.seed, 0)

\* What the server sends after its response: the PRNG_SEED burst of
\* serverHandshake, then the burst of Write(b) with n bytes.
BufferedStream(n, toPadTo) ==
    LET burstThenWrite(seedBurst) ==
            seedBurst.burst \o Write(seedBurst.c, AppBytes("srv", 0, n), toPadTo, "ok").out
    IN  burstThenWrite(padBurst(BufferedSeedPacket.c, BufferedSeedPacket.burst, toPadTo))

\* The client's connection as clientHandshake leaves it, with the bytes
\* left in its receive buffer.
BufferedClient(left) ==
    [NewConn(FALSE, SeedBytes("client")) EXCEPT !.state = "Established", !.encoder = NewEncoder(Kdf(BufferedSeed, 1)), !.decoder = NewDecoder(Kdf(BufferedSeed, 2)), !.receiveBuffer = left]

\* No Read yet.
BufIdle == [called |-> FALSE, left |-> 0, held |-> << >>, blocked |-> FALSE, err |-> "none", n |-> 0, out |-> << >>, same |-> TRUE, rdErr |-> "none"]

\* Read(b) on the client's connection with k bytes left in its receive
\* buffer, nothing arriving: the one call of a run.  held is the payload of
\* the complete frames among those bytes.
CallReadBuffered(n, toPadTo, k, lenB, rdErr) ==
    \E stream \in {BufferedStream(n, toPadTo)} :
    /\ ~lastBuf.called
    /\ k <= Len(stream)
    /\ \E c \in {BufferedClient(Slice(stream, 0, k))} :
       \E r \in {Read(c, << >>, lenB, rdErr)} :
       \E held \in {consumeLoop(c, "nil", 0, 0, << >>).c.receiveDecodedBuffer} :
           lastBuf' = [called |-> TRUE, left |-> k, held |-> held, blocked |-> r.blocked, err |-> r.err, n |-> r.n, out |-> r.out, same |-> (r.c = c), rdErr |-> rdErr]
    /\ UNCHANGED << fs, lastState, lastPad, lastSeg, lastFilter, gor, lock, ord, hsVars, frVars, connVars, fnMoreVars >>

(***************************************************************************)
(* The packet specification SpecPacket: a peer that holds the session keys *)
(* sends, between two payload packets, a frame whose plaintext need not be *)
(* a packet that makePacket builds: it may be shorter than the packet      *)
(* header, and its length field may say any length.  The bytes arrive      *)
(* together and the client calls Read or WriteTo once.                     *)
(***************************************************************************)
\* Bytes that follow the header in the plaintext.
RawBody(n) == [ i \in 1..n |-> [t |-> "raw", i |-> i] ]

\* The first plainLen bytes of a packet of type ty whose length field
\* says ln.
RawPlaintext(ty, ln, plainLen) ==
    Slice([ i \in 1..packetOverhead |-> [t |-> "hdr", ty |-> ty, ln |-> ln, i |-> i] ] \o RawBody(MaximumFramePayloadLength), 0, plainLen)

\* What the peer sends: a payload packet of good bytes (no packet when
\* good is 0), the frame of the plaintext, a payload packet of one byte.
RawStream(good, ty, ln, plainLen) ==
    LET last(c, burst) ==
            producePacket(c, burst, packetTypePayload, AppBytes("srv", good, 1), 0).burst
        raw(first, r) ==
            last([first.c EXCEPT !.encoder = r.encoder], first.burst \o r.frame)
        framed(first) ==
            raw(first, Encode(first.c.encoder, RawPlaintext(ty, ln, plainLen)))
    IN  framed(IF good = 0 THEN BurstResult(BufferedServer, << >>, "nil")
               ELSE producePacket(BufferedServer, << >>, packetTypePayload, AppBytes("srv", 0, good), 0))

\* No call yet.
PktIdle == [called |-> FALSE, op |-> "none", good |-> 0, ty |-> 0, ln |-> 0, plainLen |-> 0, err |-> "none", n |-> 0, out |-> << >>, stashed |-> << >>, after |-> "Established", blocked |-> FALSE]

\* Read(b) or WriteTo(w) on the client's connection when the bytes of the
\* peer have arrived: the one call of a run.  stashed is what the call
\* leaves in receiveDecodedBuffer.
CallOnRaw(op, good, ty, ln, plainLen, lenB, w) ==
    /\ ~lastPkt.called
    /\ \E stream \in {RawStream(good, ty, ln, plainLen)} :
       \E c \in {BufferedClient(<< >>)} :
       \E r \in {IF op = "Read" THEN Read(c, stream, lenB, "none") ELSE WriteTo(c, w, stream, "none")} :
           lastPkt' = [called |-> TRUE, op |-> op, good |-> good, ty |-> ty, ln |-> ln, plainLen |-> plainLen, err |-> r.err, n |-> r.n, out |-> r.out, stashed |-> r.c.receiveDecodedBuffer, after |-> r.c.state, blocked |-> r.blocked]
    /\ UNCHANGED << hsVars, frVars, connVars, fnCallVars, lastMark, cadRun, fnConcVars >>

\* Packet types of the frames: payload, PRNG seed, one that is not known.
RawTypes == {packetTypePayload, packetTypePrngSeed, packetTypePrngSeed + 1}

(***************************************************************************)
(* The relay specification SpecCopy: copyLoop(a, b) around an established  *)
(* transport connection b.  One goroutine runs io.Copy(b, a), which reads  *)
(* a and calls b.Write; the other runs io.Copy(a, b), which calls          *)
(* b.WriteTo(a).  A goroutine whose copy has returned runs its deferred    *)
(* Close calls.  The goroutines interleave wherever a call waits for the   *)
(* socket: b.Write in c.conn.Write, b.WriteTo in c.conn.Read.  The peer    *)
(* sends one frame, in pieces of any size, and may close.                  *)
(***************************************************************************)
MaxCopyWrites == 2

\* The frame the peer sends to b.
CopyPeerFrames == producePacket(BufferedServer, << >>, packetTypePayload, AppBytes("srv", 0, 1), 0).burst

\* up is the goroutine of io.Copy(b, a), down the one of io.Copy(a, b).
CopyInit ==
    copyRun = [b |-> BufferedClient(<< >>),
               bSock |-> [closed |-> FALSE, rdDeadline |-> FALSE],
               aClosed |-> FALSE, up |-> "copy", down |-> "copy",
               n |-> 0, writes |-> 0, arrived |-> << >>, sent |-> 0,
               peerClosed |-> FALSE, relayed |-> << >>]

\* A call on b that passed its CanReadWrite test when it was made sees c
\* with the state of that moment.
AsCalled(c) == [c EXCEPT !.state = "Established"]

\* What a call leaves in c.state as it returns: setBroken() stores Broken,
\* a call that did not fail stores nothing.
StateStored(r, state) == IF r.c.state = "Broken" THEN "Broken" ELSE state

\* io.Copy(b, a): a.Read returns n bytes (none: EOF or an error) and
\* b.Write is called with them (obfs4proxy.go:344, obfs4.go:377-380).
CopyUpRead(n) ==
    /\ copyRun.up = "copy"
    /\ n > 0 => ~copyRun.aClosed /\ copyRun.writes < MaxCopyWrites
    /\ copyRun' = [copyRun EXCEPT !.n = n, !.up = IF n > 0 /\ CanReadWrite(copyRun.b) THEN "inWrite" ELSE "closeA"]
    /\ UNCHANGED << hsVars, frVars, connVars, fnCallVars, lastPkt, lastMark, cadRun, meekRun >>

\* c.conn.Write returns in b.Write and b.Write returns (obfs4.go:382-427);
\* a closed socket takes no bytes.
CopyUpWritten(toPadTo, wr) ==
    /\ copyRun.up = "inWrite"
    /\ copyRun.bSock.closed => wr # "ok"
    /\ \E r \in {Write(AsCalled(copyRun.b), AppBytes("cli", 0, copyRun.n), toPadTo, wr)} :
           copyRun' = [copyRun EXCEPT !.b.encoder = r.c.encoder, !.b.state = StateStored(r, @), !.writes = @ + 1, !.up = IF r.err = "nil" THEN "copy" ELSE "closeA"]
    /\ UNCHANGED << hsVars, frVars, connVars, fnCallVars, lastPkt, lastMark, cadRun, meekRun >>

\* The deferred a.Close() and b.Close() of the goroutine of io.Copy(b, a)
\* (obfs4proxy.go:342-343).
CopyUpCloseA ==
    /\ copyRun.up = "closeA"
    /\ copyRun' = [copyRun EXCEPT !.aClosed = TRUE, !.up = "closeB"]
    /\ UNCHANGED << hsVars, frVars, connVars, fnCallVars, lastPkt, lastMark, cadRun, meekRun >>

CopyUpCloseB ==
    /\ copyRun.up = "closeB"
    /\ \E r \in {Close(copyRun.b, copyRun.bSock)} :
           copyRun' = [copyRun EXCEPT !.b = r.c, !.bSock = r.sock, !.up = "done"]
    /\ UNCHANGED << hsVars, frVars, connVars, fnCallVars, lastPkt, lastMark, cadRun, meekRun >>

\* io.Copy(a, b) calls b.WriteTo(a) (obfs4proxy.go:351, obfs4.go:341-344).
CopyDownCall ==
    /\ copyRun.down = "copy"
    /\ copyRun' = [copyRun EXCEPT !.down = IF CanReadWrite(copyRun.b) THEN "inWriteTo" ELSE "closeB"]
    /\ UNCHANGED << hsVars, frVars, connVars, fnCallVars, lastPkt, lastMark, cadRun, meekRun >>

\* What c.conn.Read fails with when nothing has arrived.
CopyReadErr == IF copyRun.bSock.closed THEN "ECONNRESET" ELSE IF copyRun.peerClosed THEN "EOF" ELSE "none"

\* c.conn.Read returns in b.WriteTo, which goes on until it has to wait
\* again or returns (obfs4.go:360-372); a closed a takes no bytes.
CopyDownRead ==
    /\ copyRun.down = "inWriteTo"
    /\ copyRun.arrived # << >> \/ CopyReadErr # "none"
    /\ \E r \in {WriteTo(AsCalled(copyRun.b), IF copyRun.aClosed THEN "fail" ELSE "ok", copyRun.arrived, CopyReadErr)} :
           copyRun' = [copyRun EXCEPT !.b.decoder = r.c.decoder, !.b.receiveBuffer = r.c.receiveBuffer, !.b.state = StateStored(r, @), !.arrived = r.av, !.relayed = @ \o r.out, !.down = IF r.blocked /\ CanReadWrite(copyRun.b) THEN "inWriteTo" ELSE "closeB"]
    /\ UNCHANGED << hsVars, frVars, connVars, fnCallVars, lastPkt, lastMark, cadRun, meekRun >>

\* The deferred b.Close() and a.Close() of the goroutine of io.Copy(a, b)
\* (obfs4proxy.go:349-350).
CopyDownCloseB ==
    /\ copyRun.down = "closeB"
    /\ \E r \in {Close(copyRun.b, copyRun.bSock)} :
           copyRun' = [copyRun EXCEPT !.b = r.c, !.bSock = r.sock, !.down = "closeA"]
    /\ UNCHANGED << hsVars, frVars, connVars, fnCallVars, lastPkt, lastMark, cadRun, meekRun >>

CopyDownCloseA ==
    /\ copyRun.down = "closeA"
    /\ copyRun' = [copyRun EXCEPT !.aClosed = TRUE, !.down = "done"]
    /\ UNCHANGED << hsVars, frVars, connVars, fnCallVars, lastPkt, lastMark, cadRun, meekRun >>

\* The next k bytes of the peer's frame reach b's socket.
CopyPeerSend(k) ==
    /\ ~copyRun.peerClosed /\ ~copyRun.bSock.closed
    /\ copyRun.sent + k <= Len(CopyPeerFrames)
    /\ copyRun' = [copyRun EXCEPT !.arrived = @ \o Slice(CopyPeerFrames, copyRun.sent, copyRun.sent + k), !.sent = @ + k]
    /\ UNCHANGED << hsVars, frVars, connVars, fnCallVars, lastPkt, lastMark, cadRun, meekRun >>

\* The peer closes its side.
CopyPeerClose ==
    /\ ~copyRun.peerClosed
    /\ copyRun' = [copyRun EXCEPT !.peerClosed = TRUE]
    /\ UNCHANGED << hsVars, frVars, connVars, fnCallVars, lastPkt, lastMark, cadRun, meekRun >>

(***************************************************************************)
(* The meek connection specification SpecMeek: a meekConn after            *)
(* newMeekConn, its I/O worker, one goroutine that calls Read and one that *)
(* calls Write, and Close called from either.  Buffers are their lengths.  *)
(* The worker waits in its select, in roundTrip and in the send on         *)
(* workerRdChan; Read waits in the receive from workerRdChan, Write in the *)
(* send on workerWrChan.                                                   *)
(***************************************************************************)
maxChanBacklog == 2
maxPayloadLength == 2

\* The lengths of the slices handed to Write and of the bodies of the
\* server's responses.
MeekWriteLengths == 0..maxPayloadLength
MeekResponses == {0, 1}

\* The state newMeekConn leaves, the worker started.
MeekInit ==
    meekRun = [worker |-> "select", leftBuf |-> 0, sndBuf |-> 0, wrSz |-> 0,
               rdBuf |-> 0, workerWrChan |-> << >>, workerRdChan |-> << >>,
               wrClosed |-> FALSE, rdClosed |-> FALSE, closed |-> FALSE,
               reader |-> "idle", writer |-> "idle", b |-> 0,
               stashed |-> FALSE, readErr |-> "none", writeErr |-> "none",
               closeErr |-> "none"]

\* The loop that combines short writes (hpkp_lite.go:427-433): sndBuf
\* grows by what waits in ch while it is below maxPayloadLength.
RECURSIVE combineWrites(_, _)
combineWrites(sndBuf, ch) ==
    IF Len(ch) > 0 /\ sndBuf < maxPayloadLength
    THEN combineWrites(sndBuf + Head(ch), Tail(ch))
    ELSE [sndBuf |-> sndBuf, ch |-> ch]

\* The worker after its select gave it sndBuf, up to the call of
\* roundTrip (hpkp_lite.go:426-436).
workerCombine(m, sndBuf, ch) ==
    LET issue(r) == [m EXCEPT !.worker = "roundTrip", !.sndBuf = r.sndBuf, !.wrSz = Min(r.sndBuf, maxPayloadLength), !.workerWrChan = r.ch]
    IN  issue(combineWrites(m.leftBuf + sndBuf, ch))

\* The select of the worker takes the timer (hpkp_lite.go:415-416).
WorkerPoll ==
    /\ meekRun.worker = "select"
    /\ meekRun' = workerCombine(meekRun, 0, meekRun.workerWrChan)
    /\ UNCHANGED << hsVars, frVars, connVars, fnCallVars, lastPkt, lastMark, cadRun, copyRun >>

\* The select takes a buffer from workerWrChan (hpkp_lite.go:417-418).
WorkerTakeWrite ==
    /\ meekRun.worker = "select"
    /\ meekRun.workerWrChan # << >>
    /\ meekRun' = workerCombine(meekRun, Head(meekRun.workerWrChan), Tail(meekRun.workerWrChan))
    /\ UNCHANGED << hsVars, frVars, connVars, fnCallVars, lastPkt, lastMark, cadRun, copyRun >>

\* The select finds workerCloseChan closed and leaves the loop
\* (hpkp_lite.go:419-420).
WorkerSeesClose ==
    /\ meekRun.worker = "select"
    /\ meekRun.closed
    /\ meekRun' = [meekRun EXCEPT !.worker = "leaving"]
    /\ UNCHANGED << hsVars, frVars, connVars, fnCallVars, lastPkt, lastMark, cadRun, copyRun >>

\* roundTrip returns, with an error or with a response body of rdBuf
\* bytes, and the worker goes on to its next wait (hpkp_lite.go:436-471).
WorkerRoundTrip(rdBuf, failed) ==
    /\ meekRun.worker = "roundTrip"
    /\ meekRun' = IF failed THEN [meekRun EXCEPT !.worker = "leaving"]
                  ELSE [meekRun EXCEPT !.leftBuf = meekRun.sndBuf - meekRun.wrSz, !.rdBuf = rdBuf, !.worker = IF rdBuf > 0 THEN "enqueue" ELSE "select"]
    /\ UNCHANGED << hsVars, frVars, connVars, fnCallVars, lastPkt, lastMark, cadRun, copyRun >>

\* c.workerRdChan <- rdBuf (hpkp_lite.go:454) returns: the channel had
\* room.
WorkerEnqueueRead ==
    /\ meekRun.worker = "enqueue"
    /\ Len(meekRun.workerRdChan) < maxChanBacklog
    /\ meekRun' = [meekRun EXCEPT !.workerRdChan = Append(@, meekRun.rdBuf), !.rdBuf = 0, !.worker = "select"]
    /\ UNCHANGED << hsVars, frVars, connVars, fnCallVars, lastPkt, lastMark, cadRun, copyRun >>

\* The worker after its loop (hpkp_lite.go:475-481): it closes both
\* channels and calls Close.
WorkerExit ==
    /\ meekRun.worker = "leaving"
    /\ meekRun' = [meekRun EXCEPT !.rdClosed = TRUE, !.wrClosed = TRUE, !.closed = TRUE, !.worker = "exited"]
    /\ UNCHANGED << hsVars, frVars, connVars, fnCallVars, lastPkt, lastMark, cadRun, copyRun >>

\* meekConn.Read(p) is called (hpkp_lite.go:266-278): it is served from
\* the buffer of the previous Read, which may still hold bytes after
\* (more), or goes on to the channel.
MeekRead(more) ==
    /\ meekRun.reader = "idle"
    /\ meekRun' = IF meekRun.stashed
                  THEN [meekRun EXCEPT !.stashed = more, !.readErr = "nil"]
                  ELSE [meekRun EXCEPT !.reader = "inRead"]
    /\ UNCHANGED << hsVars, frVars, connVars, fnCallVars, lastPkt, lastMark, cadRun, copyRun >>

\* b, ok := <-c.workerRdChan returns in Read, and Read returns
\* (hpkp_lite.go:281-295); more tells whether p was shorter than b.
MeekReadReturns(more) ==
    /\ meekRun.reader = "inRead"
    /\ meekRun.workerRdChan # << >> \/ meekRun.rdClosed
    /\ meekRun' = IF meekRun.workerRdChan # << >>
                  THEN [meekRun EXCEPT !.workerRdChan = Tail(@), !.stashed = more, !.readErr = "nil", !.reader = "idle"]
                  ELSE [meekRun EXCEPT !.readErr = "ErrClosedPipe", !.reader = "idle"]
    /\ UNCHANGED << hsVars, frVars, connVars, fnCallVars, lastPkt, lastMark, cadRun, copyRun >>

\* meekConn.Write(b) is called with len(b) = n (hpkp_lite.go:298-313).
MeekWrite(n) ==
    /\ meekRun.writer = "idle"
    /\ meekRun' = IF meekRun.closed THEN [meekRun EXCEPT !.writeErr = "ErrClosedPipe"]
                  ELSE IF n = 0 THEN [meekRun EXCEPT !.writeErr = "nil"]
                  ELSE [meekRun EXCEPT !.writer = "inWrite", !.b = n]
    /\ UNCHANGED << hsVars, frVars, connVars, fnCallVars, lastPkt, lastMark, cadRun, copyRun >>

\* c.workerWrChan <- b returns or panics in enqueueWrite, and Write
\* returns (hpkp_lite.go:314-320, 355-363).
MeekWriteReturns ==
    /\ meekRun.writer = "inWrite"
    /\ meekRun.wrClosed \/ Len(meekRun.workerWrChan) < maxChanBacklog
    /\ meekRun' = IF meekRun.wrClosed
                  THEN [meekRun EXCEPT !.writeErr = "ErrClosedPipe", !.writer = "idle"]
                  ELSE [meekRun EXCEPT !.workerWrChan = Append(@, meekRun.b), !.writeErr = "nil", !.writer = "idle"]
    /\ UNCHANGED << hsVars, frVars, connVars, fnCallVars, lastPkt, lastMark, cadRun, copyRun >>

\* meekConn.Close() (hpkp_lite.go:323-333), called by a goroutine that is
\* in no other call.
MeekClose ==
    /\ meekRun' = [meekRun EXCEPT !.closed = TRUE, !.closeErr = IF meekRun.closed THEN "ErrClosed" ELSE "nil"]
    /\ meekRun' # meekRun
    /\ UNCHANGED << hsVars, frVars, connVars, fnCallVars, lastPkt, lastMark, cadRun, copyRun >>

(***************************************************************************)
(* The concurrent filter specification SpecConc: goroutines that serve     *)
(* connections call testAndSet on the one replay filter, each once.  A     *)
(* caller evaluates the arguments (the reading of the clock and the bytes) *)
(* and the digest before it waits for the filter's lock; the body runs     *)
(* with the lock held and the deferred Unlock runs as the call returns.    *)
(* The clock advances by a second or by an hour at any time.               *)
(***************************************************************************)
Goroutines == {"g1", "g2", "g3"}

\* The byte strings the goroutines present.
ConcBufs == { << [t |-> "mac", v |-> i] >> : i \in 1..2 }

NoHolder == "none"

\* A goroutine that has not called yet.
GoIdle == [pc |-> "idle", now |-> 0, buf |-> << >>, with |-> {}, held |-> FALSE, seen |-> FALSE]

ConcInit == gor = [ g \in Goroutines |-> GoIdle ] /\ lock = NoHolder

\* The goroutines inside a call of testAndSet.
InFlight == { g \in Goroutines : gor[g].pc \in {"called", "locked"} }

\* g calls testAndSet(now, buf) with the current reading of the clock and
\* computes the digest (packet.go:263); with and held keep the calls in
\* progress and whether the filter holds the digest at this moment.
GoCall(g, buf) ==
    /\ gor[g].pc = "idle"
    /\ gor' = [gor EXCEPT ![g] = [pc |-> "called", now |-> hsNow, buf |-> buf, with |-> InFlight, held |-> \E e \in rf.filter : e.hash = SipHash(FilterKey, buf), seen |-> FALSE]]
    /\ UNCHANGED << lock, ord, fs, lastState, lastPad, lastSeg, lastFilter, hsVars, frVars, connVars, lastBuf, fnMoreVars >>

\* f.lock.Lock() (packet.go:265) returns in g.
GoLock(g) ==
    /\ gor[g].pc = "called"
    /\ lock = NoHolder
    /\ lock' = g
    /\ gor' = [gor EXCEPT ![g].pc = "locked"]
    /\ UNCHANGED << ord, fs, lastState, lastPad, lastSeg, lastFilter, hsVars, frVars, connVars, lastBuf, fnMoreVars >>

\* g runs the body of testAndSet (packet.go:268-281) and returns; the
\* deferred Unlock releases the lock.
GoReturn(g) ==
    /\ gor[g].pc = "locked"
    /\ lock = g
    /\ \E r \in {testAndSet(rf, FilterKey, gor[g].now, gor[g].buf)} :
           /\ rf' = r.f
           /\ gor' = [gor EXCEPT ![g].pc = "returned", ![g].seen = r.seen]
    /\ lock' = NoHolder
    /\ UNCHANGED << hsNow, hsTicks, sess, presented, captured, lastParse, ord, fs, lastState, lastPad, lastSeg, lastFilter, frVars, connVars, lastBuf, fnMoreVars >>

(***************************************************************************)
(* The padding specification SpecPad: padBurst is called on a burst of any *)
(* length up to MaxBurstSegments segments, with any value the length       *)
(* distribution can give.                                                  *)
(***************************************************************************)
MaxBurstSegments == 2

\* The frames written into the burst before padBurst is called.
BurstBytes(n) == [ i \in 1..n |-> [t |-> "burst", i |-> i] ]

\* padBurst(burst) on a connection with a fresh encoder, lenProbDist.sample()
\* giving toPadTo.
\* The box lengths in the length fields of the frames in data.
BoxLengths(data) ==
    { data[i].lv : i \in { j \in 1..Len(data) : data[j].t = "len" /\ data[j].i = 1 } }

\* frames holds the lengths of the frames padBurst appended, padLens the
\* lengths of the padding in their packets, which carry no payload.
CallPadBurst(n, toPadTo) ==
    \E c \in {[NewConn(FALSE, SeedBytes("client")) EXCEPT !.state = "Established", !.encoder = NewEncoder(FrameKey)]} :
    \E r \in {padBurst(c, BurstBytes(n), toPadTo)} :
    \E boxes \in {BoxLengths(r.burst)} :
        /\ lastPad' = [burst |-> n, toPadTo |-> toPadTo, err |-> r.err,
                       padded |-> Len(r.burst),
                       frames |-> { lengthLength + b : b \in boxes },
                       padLens |-> { b - secretboxOverhead - packetOverhead : b \in boxes }]
        /\ UNCHANGED << fs, lastState, lastSeg, lastFilter, gor, lock, ord, hsVars, frVars, connVars, lastBuf, fnMoreVars >>

\* Nothing padded yet, nothing parsed in pieces yet.
PadIdle == [burst |-> 0, toPadTo |-> 0, err |-> "none", padded |-> 0,
            frames |-> {}, padLens |-> {}]
SegIdle == [side |-> "none", padLen |-> 0, len |-> 0, n |-> 0,
            inCap |-> TRUE, err |-> "none"]

FnInit == StateInit /\ lastPad = PadIdle /\ lastSeg = SegIdle /\ lastFilter = NoFilterCall /\ ConcInit /\ OrderInit /\ lastBuf = BufIdle /\ lastPkt = PktIdle /\ lastMark = MarkIdle /\ CadInit /\ CopyInit /\ MeekInit

(***************************************************************************)
(* The specifications.  All of them start in the state after construction: *)
(* no handshake made, a fresh codec, a connection accepted by the server   *)
(* and about to be dialled by the client.                                  *)
(***************************************************************************)
Init == HsInit /\ FrameInit /\ ConnInit /\ FnInit

HsNext ==
    \/ \E cfg \in ClientConfigs, padLen \in clientMinPadLength..clientMaxPadLength, skew \in ClientSkews : ClientHello(cfg, padLen, skew)
    \/ ServerParse
    \/ \E padLen \in serverMinPadLength..serverMaxPadLength : ServerRespond(padLen)
    \/ ClientParse
    \/ HsFinish
    \/ Tick

SpecHS == Init /\ [][HsNext]_vars

ReplayNext ==
    \/ \E padLen \in clientMinPadLength..clientMaxPadLength, skew \in ReplaySkews, capture \in BOOLEAN : Present(padLen, skew, capture)
    \/ Replay
    \/ Tick
    \/ SecondPasses
    \/ ClockStepBack

SpecReplay == Init /\ [][ReplayNext]_vars

SpecFrame == Init /\ [][FrameNext]_vars

StateNext ==
    \/ \E stateDir \in StateDirs, args \in ArgSets : CallServerStateFromArgs(stateDir, args)
    \/ \E stateDir \in StateDirs, f \in OperatorFiles : EditStateFile(stateDir, f)

SpecState == Init /\ [][StateNext]_vars

SegNext ==
    \/ \E padLen \in clientMinPadLength..clientMaxPadLength, n \in 0..clientMaxHandshakeLength, inCap \in BOOLEAN : ParseClientPiece(padLen, n, inCap)
    \/ \E padLen \in serverMinPadLength..serverMaxPadLength, n \in 0..serverMaxHandshakeLength, inCap \in BOOLEAN : ParseServerPiece(padLen, n, inCap)
    \/ Tick

SpecSeg == Init /\ [][SegNext]_vars

FilterNext ==
    \E now \in FilterTimes, buf \in FilterBufs : CallTestAndSet(now, buf)

SpecFilter == Init /\ [][FilterNext]_vars

OrderNext ==
    \/ \E n \in OrderLengths : OrderSend(n)
    \/ \E i \in 1..MaxSent : OrderDeliver(i)
    \/ \E other \in 0..(maxFrameLength + 1) : OrderDecode(other)

SpecOrder == Init /\ [][OrderNext]_vars

BufferedNext ==
    \E n \in 1..maxPacketPayloadLength, toPadTo \in SampleValues, k \in 0..(2 * MaximumSegmentLength), lenB \in ReadLengths, rdErr \in {"none", "timeout", "EOF", "ECONNRESET"} : CallReadBuffered(n, toPadTo, k, lenB, rdErr)

SpecBuffered == Init /\ [][BufferedNext]_vars

DelayNext ==
    \/ \E budget \in CloseDelayBytes, setErr \in BOOLEAN : CadStart(budget, setErr)
    \/ CadRead
    \/ \E k \in {1, MaximumSegmentLength} : CadPeerSend(k)
    \/ CadPeerClose
    \/ CadTick

SpecDelay == Init /\ [][DelayNext]_vars

\* The goroutine that runs closeAfterDelay is scheduled, and time passes.
SpecDelayLive ==
    /\ SpecDelay
    /\ WF_vars(\E budget \in CloseDelayBytes, setErr \in BOOLEAN : CadStart(budget, setErr))
    /\ WF_vars(CadRead)
    /\ WF_vars(CadTick)

MarkNext ==
    \E n \in 0..MaxArrived, markAt \in {-1} \cup RepresentativeLength..MaxArrived, withMac \in BOOLEAN, inCap \in BOOLEAN : ParseMarked(n, markAt, withMac, inCap)

SpecMark == Init /\ [][MarkNext]_vars

PacketNext ==
    \E op \in {"Read", "WriteTo"}, good \in {0, 1}, ty \in RawTypes, ln \in 0..(MaximumFramePayloadLength + 1), plainLen \in 0..MaximumFramePayloadLength, lenB \in ReadLengths, w \in Writers : CallOnRaw(op, good, ty, ln, plainLen, lenB, w)

SpecPacket == Init /\ [][PacketNext]_vars

ConcNext ==
    \/ \E g \in Goroutines, buf \in ConcBufs : GoCall(g, buf)
    \/ \E g \in Goroutines : GoLock(g)
    \/ \E g \in Goroutines : GoReturn(g)
    \/ SecondPasses
    \/ Tick

SpecConc == Init /\ [][ConcNext]_vars

CopyNext ==
    \/ \E n \in {0, 1, maxPacketPayloadLength + 1} : CopyUpRead(n)
    \/ \E toPadTo \in SampleValues, wr \in Writers : CopyUpWritten(toPadTo, wr)
    \/ CopyUpCloseA
    \/ CopyUpCloseB
    \/ CopyDownCall
    \/ CopyDownRead
    \/ CopyDownCloseB
    \/ CopyDownCloseA
    \/ \E k \in {1, Len(CopyPeerFrames)} : CopyPeerSend(k)
    \/ CopyPeerClose

SpecCopy == Init /\ [][CopyNext]_vars

MeekNext ==
    \/ WorkerPoll
    \/ WorkerTakeWrite
    \/ WorkerSeesClose
    \/ \E rdBuf \in MeekResponses, failed \in BOOLEAN : WorkerRoundTrip(rdBuf, failed)
    \/ WorkerEnqueueRead
    \/ WorkerExit
    \/ \E more \in BOOLEAN : MeekRead(more)
    \/ \E more \in BOOLEAN : MeekReadReturns(more)
    \/ \E n \in MeekWriteLengths : MeekWrite(n)
    \/ MeekWriteReturns
    \/ MeekClose

SpecMeek == Init /\ [][MeekNext]_vars

\* The worker goroutine is scheduled and roundTrip returns; a select with
\* several ready cases takes each of them sooner or later; a caller that
\* waits on a channel is woken when the channel lets it go on.  Nothing
\* makes the callers call again.
SpecMeekLive ==
    /\ SpecMeek
    /\ WF_vars(WorkerPoll \/ WorkerTakeWrite)
    /\ SF_vars(WorkerSeesClose)
    /\ WF_vars(\E rdBuf \in MeekResponses, failed \in BOOLEAN : WorkerRoundTrip(rdBuf, failed))
    /\ WF_vars(WorkerEnqueueRead)
    /\ WF_vars(WorkerExit)
    /\ WF_vars(\E more \in BOOLEAN : MeekReadReturns(more))
    /\ WF_vars(MeekWriteReturns)

PadNext ==
    \E n \in 0..(MaxBurstSegments * MaximumSegmentLength), toPadTo \in 0..MaximumSegmentLength : CallPadBurst(n, toPadTo)

SpecPad == Init /\ [][PadNext]_vars

ConnNext ==
    \/ \E cfg \in ClientConfigs, padLen \in ClientPadLengths, wr \in WriteOutcomes : DialSend(cfg, padLen, wr)
    \/ \E rdErr \in {"none", "timeout", "EOF", "ECONNRESET"}, inCap \in BOOLEAN : DialFinish(rdErr, inCap)
    \/ \E e \in Endpoints : ServerHandshake(e)
    \/ \E e \in Endpoints : CallWrite(e)
    \/ \E e \in Endpoints : CallRead(e)
    \/ \E e \in Endpoints : CallWriteTo(e)
    \/ \E e \in Endpoints : CallClose(e)
    \/ \E e \in Endpoints, t \in BOOLEAN : CallSetReadDeadline(e, t)
    \/ \E e \in Endpoints : \E k \in {Len(net[e]) - 1, Len(net[e])} : Deliver(e, k)
    \/ \E e \in Endpoints, kind \in {"tag", "ct"} : Tamper(e, kind)

Spec == Init /\ [][ConnNext]_vars

(***************************************************************************)
(* The seed specification SpecSeed: the handshake, then a client that      *)
(* sends a PRNG_SEED packet of its own before its payload, as the server   *)
(* does; both sides write and read.                                        *)
(***************************************************************************)
SeedNext ==
    \/ \E cfg \in ClientConfigs, padLen \in ClientPadLengths, wr \in WriteOutcomes : DialSend(cfg, padLen, wr)
    \/ \E rdErr \in {"none", "timeout", "EOF", "ECONNRESET"}, inCap \in BOOLEAN : DialFinish(rdErr, inCap)
    \/ ServerHandshake("srv")
    \/ \E n \in {distSeedLength - 1, distSeedLength} : SendSeed("cli", n)
    \/ \E e \in Endpoints : CallWrite(e)
    \/ \E e \in Endpoints : CallRead(e)
    \/ \E e \in Endpoints : Deliver(e, Len(net[e]))

SpecSeed == Init /\ [][SeedNext]_vars

(***************************************************************************)
(* Properties of the handshake.                                            *)
(***************************************************************************)
ServerParsed == sess.st \in {"failed", "parsed", "responded", "done"}

\* C1: when the client is configured with the server's node ID and identity
\* key and both sides use the same epoch hour, the server's parse of the
\* client's message succeeds, the client's parse of the server's response
\* succeeds and consumes the whole response, and both derive the same key
\* seed.
C1_HandshakeRoundTrip ==
    /\ (ServerParsed /\ sess.cfg = Server /\ sess.cEpoch = sess.sParseEpoch)
          => sess.sParse.err = "nil"
    /\ (/\ sess.st = "done"
        /\ sess.cfg = Server
        /\ sess.cEpoch = sess.sParseEpoch
        /\ sess.cEpoch = sess.sGenEpoch)
          => /\ sess.cParse.err = "nil"
             /\ sess.cParse.n = Len(sess.sToC)
             /\ sess.cParse.seed = sess.sParse.seed
             /\ sess.cParse.seed # NoSeed

\* A padded response was parsed by a client of the same configuration and
\* epoch hour.
C1_Witness ==
    /\ sess.st = "done"
    /\ sess.cfg = Server
    /\ sess.cEpoch = sess.sParseEpoch
    /\ sess.cEpoch = sess.sGenEpoch
    /\ Len(sess.sToC) > serverMinHandshakeLength
    /\ Len(sess.cToS) > clientMinHandshakeLength + clientMinPadLength
    /\ sess.cParse.err = "nil"

\* C3: the server accepts a client message whose MAC was computed with the
\* epoch hour E - 1, E or E + 1, E being the server's hour when it parses,
\* and rejects one computed with E - 2 or E + 2 with ErrInvalidHandshake.
C3_EpochWindow ==
    (ServerParsed /\ sess.cfg.identity = Server.identity)
       => /\ (sess.cEpoch - sess.sParseEpoch \in {-1, 0, 1})
                => sess.sParse.err = "nil"
          /\ (sess.cEpoch - sess.sParseEpoch \in {-2, 2})
                => sess.sParse.err = "ErrInvalidHandshake"

\* The server accepted a message whose MAC is an hour ahead of its clock.
C3_Witness ==
    /\ sess.st = "parsed"
    /\ sess.cfg.identity = Server.identity
    /\ sess.cEpoch - sess.sParseEpoch = 1
    /\ sess.sParse.err = "nil"

\* The latest parse was of the captured message, presented again less than
\* two hours of server clock after its first, accepted presentation.
ReplayedWithinTwoHours ==
    /\ lastParse.replay
    /\ lastParse.at - lastParse.firstAt < filterExpiry
    /\ lastParse.firstAt - lastParse.at < filterExpiry

C5_FrameRoundTrip ==
    /\ (/\ lastEnc.err # "none"
        /\ lastEnc.payloadLen <= MaximumFramePayloadLength
        /\ lastEnc.counter # 0)
          => /\ lastEnc.err = "nil"
             /\ lastEnc.n = lastEnc.payloadLen + FrameOverhead
             /\ lastEnc.frameLen = lastEnc.n
    /\ lastDec.err = "nil"
          => lastDec.out = lastDec.expected /\ lastDec.n = Len(lastDec.out)
    /\ ~tampered
          => /\ ~DecodeFatal(lastDec.err)
             /\ enc.nonce.counter
                  = (dec.nonce.counter + Len(inFlight)) % NonceModulus

\* The second of two frames, one of the largest payload, was decoded.
C5_Witness ==
    /\ ~tampered
    /\ lastDec.err = "nil"
    /\ Len(lastDec.out) = MaximumFramePayloadLength
    /\ lastDec.out = Payload(2, MaximumFramePayloadLength)
    /\ inFlight = << >>
    /\ dec.nonce.counter = 3
    /\ enc.nonce.counter = dec.nonce.counter

\* C7 as stated: when the encoder's nonce counter is at its largest value,
\* the next Encode returns ErrNonceCounterWrapped and produces no bytes.
C7_WrapAtMaxCounter ==
    (/\ lastEnc.err # "none"
     /\ lastEnc.payloadLen <= MaximumFramePayloadLength
     /\ lastEnc.counter = NonceModulus - 1)
       => lastEnc.err = "ErrNonceCounterWrapped" /\ lastEnc.frameLen = 0

\* C7: when the encoder's nonce counter has wrapped past its largest value
\* to 0, the next Encode of a payload within the maximum returns
\* ErrNonceCounterWrapped and produces no bytes; no frame is sealed with a
\* counter value that sealed an earlier frame.
C7_NonceWrap ==
    /\ (/\ lastEnc.err # "none"
        /\ lastEnc.payloadLen <= MaximumFramePayloadLength
        /\ lastEnc.counter = 0)
          => /\ lastEnc.err = "ErrNonceCounterWrapped"
             /\ lastEnc.n = 0
             /\ lastEnc.frameLen = 0
    /\ ~sealed.reused
    /\ 0 \notin sealed.with

\* Encode was refused after every counter value had sealed one frame.
C7_Witness ==
    /\ lastEnc.counter = 0
    /\ lastEnc.err = "ErrNonceCounterWrapped"
    /\ sealed.with = 1..(NonceModulus - 1)
    /\ enc.nonce.counter = 0


(***************************************************************************)
(* Properties of the connection.                                           *)
(***************************************************************************)
IsPrefix(a, b) == Len(a) <= Len(b) /\ a = SubSeq(b, 1, Len(a))

\* The endpoints whose caller took bytes with Read only.
Readers == { e \in Endpoints : ~app[e].usedWriteTo }

DeliveredFrames(e) ==
    { app[Peer(e)].frameOf[b.i] : b \in { app[e].read[i] : i \in 1..Len(app[e].read) } \cup { app[e].copied[i] : i \in 1..Len(app[e].copied) } }

\* C6: once a byte of the tag or of the ciphertext of a frame on its way to
\* an endpoint was altered, the endpoint's decoder never gets past that
\* frame, a call that meets the frame returns ErrTagMismatch and leaves the
\* connection Broken (it stays so until it is closed), every Read on the
\* broken connection returns an error and no byte, and no byte of that
\* frame or of a later one is delivered.
C6_TamperedFrameIsFatal ==
    tamper.ep # "none" =>
        LET e == tamper.ep
            c == conn[e]
            mine == lastOp.ep = e /\ lastOp.op \in {"Read", "WriteTo"}
        IN  /\ c.decoder # Nil => c.decoder.nonce.counter <= tamper.ctr
            /\ (mine /\ lastOp.err = "ErrTagMismatch")
                  => lastOp.after = "Broken"
            /\ (mine /\ lastOp.before = "Broken")
                  => lastOp.err # "nil" /\ lastOp.n = 0
            /\ c.decoder # Nil /\ c.decoder.nextLength # 0
                   /\ c.decoder.nextNonce.nc = tamper.ctr
                   /\ Len(c.receiveBuffer) >= c.decoder.nextLength
                  => c.state \in {"Broken", "Closed"}
            /\ \A f \in DeliveredFrames(e) : f < tamper.ctr

\* A Read on the connection the altered frame broke has returned, and the
\* peer had sent payload in a later frame.
C6_Witness ==
    /\ tamper.ep # "none"
    /\ lastOp.ep = tamper.ep
    /\ lastOp.op = "Read"
    /\ lastOp.before = "Broken"
    /\ conn[tamper.ep].decoder.nextLength # 0
    /\ conn[tamper.ep].decoder.nextNonce.nc = tamper.ctr
    /\ \E i \in 1..Len(app[Peer(tamper.ep)].frameOf) :
           app[Peer(tamper.ep)].frameOf[i] > tamper.ctr

StateChanges ==
    { << "Init", "Established" >>, << "Init", "Broken" >>,
      << "Established", "Broken" >>, << "Established", "Closed" >> }

\* C8: every step leaves the state of a connection as it is, or changes it
\* from Init to Established or Broken or from Established to Broken or
\* Closed, or is a Close() that changes it to Closed.
C8_StateMachine ==
    [][\A e \in Endpoints :
          \/ conn'[e].state = conn[e].state
          \/ << conn[e].state, conn'[e].state >> \in StateChanges
          \/ /\ conn'[e].state = "Closed"
             /\ lastOp'.op = "Close"
             /\ lastOp'.ep = e]_vars

\* Close() has closed a connection that was Broken.
C8_Witness ==
    /\ lastOp.op = "Close"
    /\ lastOp.before = "Broken"
    /\ lastOp.after = "Closed"
    /\ conn[lastOp.ep].encoder # Nil

\* C9: when ServerHandshake was called on a connection in Init and returns
\* an error, closeAfterDelay has run, the connection is Broken and the
\* socket is closed.
C9_FailedHandshakeCloses ==
    (/\ lastOp.op = "ServerHandshake"
     /\ lastOp.before = "Init"
     /\ lastOp.err \notin {"nil", "panic"})
        => /\ lastOp.cad
           /\ lastOp.after = "Broken"
           /\ lastOp.sockClosed
           /\ sock[lastOp.ep].closed
           /\ conn[lastOp.ep].state = "Broken"

\* ServerHandshake has returned ErrInvalidHandshake.
C9_Witness ==
    /\ lastOp.op = "ServerHandshake"
    /\ lastOp.err = "ErrInvalidHandshake"
    /\ sock["srv"].closed

\* C10: Read, Write, WriteTo and SetReadDeadline on a connection that is
\* not Established return EINVAL and no byte, neither read from nor write
\* to the socket, and leave the connection as it was.
C10_RejectedWhenNotEstablished ==
    (/\ lastOp.op \in {"Read", "Write", "WriteTo", "SetReadDeadline"}
     /\ lastOp.before # "Established")
        => /\ lastOp.err = "EINVAL"
           /\ lastOp.n = 0
           /\ ~lastOp.io
           /\ lastOp.same
           /\ lastOp.after = lastOp.before

\* Read was called on a Closed connection that holds decoded bytes.
C10_Witness ==
    /\ lastOp.op = "Read"
    /\ lastOp.before = "Closed"
    /\ lastOp.err = "EINVAL"
    /\ conn[lastOp.ep].receiveDecodedBuffer # << >>

\* C11 (as stated): ServerHandshake() called on a connection that is not in
\* Init returns an error and neither reads from nor writes to the socket.
C11_RejectedOutsideInit ==
    (lastOp.op = "ServerHandshake" /\ lastOp.before # "Init") =>
        lastOp.err # "nil" /\ ~lastOp.io

\* C11: ServerHandshake() called on a connection that is not in Init
\* neither reads from nor writes to the socket and leaves the connection
\* as it was; on a Broken or Closed connection it returns EINVAL, on an
\* Established one it returns nil.
C11_HandshakeOnlyInInit ==
    (lastOp.op = "ServerHandshake" /\ lastOp.before # "Init") =>
        /\ ~lastOp.io
        /\ lastOp.same
        /\ lastOp.after = lastOp.before
        /\ lastOp.err = IF lastOp.before = "Established" THEN "nil"
                        ELSE "EINVAL"

\* ServerHandshake() has returned nil on an Established connection.
C11_Witness ==
    /\ lastOp.op = "ServerHandshake"
    /\ lastOp.before = "Established"
    /\ lastOp.err = "nil"
    /\ ~lastOp.io

\* C12: Close() on a connection that Close() has already closed returns an
\* error and does not panic, and every Read or Write on a connection that
\* Close() has closed returns an error; the connection stays Closed.
C12_ErrorsAfterClose ==
    /\ lastOp.op = "Close" => lastOp.after = "Closed"
    /\ (lastOp.op \in {"Close", "Read", "Write"} /\ lastOp.before = "Closed") =>
           /\ lastOp.err # "nil"
           /\ lastOp.err # "panic"
           /\ lastOp.after = "Closed"
           /\ pc[lastOp.ep] = "ready"

\* Close() has been called a second time on an endpoint and returned an
\* error.
C12_Witness ==
    /\ lastOp.op = "Close"
    /\ lastOp.before = "Closed"
    /\ lastOp.err = "EBADF"

\* The latest parse was of the captured message, presented again more than
\* two hours after its first presentation and for the first time since the
\* server last accepted it.
ReplayedAfterTwoHours ==
    /\ lastParse.replay
    /\ lastParse.at - lastParse.firstAt > filterExpiry
    /\ lastParse.again = 0

\* The epoch hour in the MAC of the latest parsed message is one of the
\* three the server tries at the time of the parse.
EpochStillInWindow ==
    \E i \in 1..Len(EpochOffsets) :
        lastParse.epoch = getEpochHour(lastParse.at) + EpochOffsets[i]

ThreeArgs == {nodeIDArg, privateKeyArg, seedArg}

\* The server state that the strings of a JSON state encode.
StateOf(js) == obfs4ServerState(js.NodeID.v, js.PrivateKey.v, js.DrbgSeed.v)

\* The latest call was given all three arguments, each in base64.
AllSupplied ==
    /\ lastState.called
    /\ DOMAIN lastState.args = ThreeArgs
    /\ \A k \in ThreeArgs : lastState.args[k].enc = "base64"

C15_StateDirFiles ==
    AllSupplied =>
        LET c == lastState
        IN  /\ c.err = "nil"
            /\ c.stateDir = "" =>
                  /\ c.after[""].state.exists = c.before[""].state.exists
                  /\ c.after[""].bridgeline.exists
                        = c.before[""].bridgeline.exists
            /\ c.stateDir # "" =>
                  /\ c.after[c.stateDir].state.exists
                  /\ c.after[c.stateDir].bridgeline.exists

(***************************************************************************)
(* Properties of parsing a handshake that arrives in pieces.               *)
(***************************************************************************)
\* C16: handed a proper prefix of a valid handshake message, the parser of
\* either side returns ErrMarkNotFoundYet, and handed the whole message it
\* succeeds.
C16_SegmentationIndependent ==
    lastSeg.side # "none" =>
        lastSeg.err = IF lastSeg.n < lastSeg.len THEN "ErrMarkNotFoundYet"
                      ELSE "nil"

\* The mark lies within the bytes handed to the parser and within the
\* first serverMaxHandshakeLength of them.
MarkInRange ==
    /\ lastMark.markAt # -1
    /\ lastMark.markAt + markLength <= Min(lastMark.n, serverMaxHandshakeLength)

\* C33: parseClientHandshake returns ErrMarkNotFoundYet when fewer than
\* clientMinHandshakeLength bytes have arrived, and when the mark is not
\* found and fewer than clientMaxHandshakeLength bytes have arrived; it
\* returns ErrInvalidHandshake when the mark is not found and at least
\* clientMaxHandshakeLength bytes have arrived.
C33_MarkNotFound ==
    lastMark.called =>
        /\ lastMark.n < clientMinHandshakeLength
               => lastMark.err = "ErrMarkNotFoundYet"
        /\ (lastMark.n >= clientMinHandshakeLength /\ ~MarkInRange) =>
               lastMark.err = IF lastMark.n < clientMaxHandshakeLength
                              THEN "ErrMarkNotFoundYet"
                              ELSE "ErrInvalidHandshake"

\* The parser was handed more than clientMaxHandshakeLength bytes that
\* hold the mark behind the first serverMaxHandshakeLength of them.
C33_Witness ==
    /\ lastMark.called
    /\ lastMark.n > clientMaxHandshakeLength
    /\ lastMark.markAt >= serverMaxHandshakeLength
    /\ lastMark.markAt + markLength <= lastMark.n
    /\ lastMark.err = "ErrInvalidHandshake"

\* C37 (as stated): when the server accepts a client's message, the
\* message is at most clientMaxHandshakeLength bytes long: its mark and
\* the MAC behind it lie within the first clientMaxHandshakeLength bytes.
C37_AcceptedWithinMaximum ==
    (lastMark.called /\ lastMark.err = "nil") =>
        /\ lastMark.n <= clientMaxHandshakeLength
        /\ lastMark.markAt + markLength + macLength <= clientMaxHandshakeLength

(***************************************************************************)
(* Properties of a handshake between skewed clocks.                        *)
(***************************************************************************)
\* C17: when the server's epoch hour differs by exactly one from the epoch
\* hour in the client's message, the server accepts the message and the
\* client, checking the MAC of the response with its own epoch hour,
\* accepts the response.
C17_SkewedHandshakeCompletes ==
    (/\ sess.st = "done"
     /\ sess.cfg = Server
     /\ sess.cEpoch - sess.sParseEpoch \in {-1, 1}
     /\ sess.sGenEpoch = sess.sParseEpoch)
        => /\ sess.sParse.err = "nil"
           /\ sess.cParse.err = "nil"
           /\ sess.cParse.seed = sess.sParse.seed

(***************************************************************************)
(* Properties of the length distribution.                                  *)
(***************************************************************************)
\* The decoder of endpoint e has opened at least the first frame its peer
\* sent.
OpenedFirstFrame(e) ==
    /\ conn[e].decoder # Nil
    /\ conn[e].decoder.nonce.counter # nonceInit(<< >>).counter

\* C18: the distribution of the server is the one made from the listener's
\* seed whatever the client sends; the distribution of the client is the
\* one Dial made until the client has consumed the server's PRNG_SEED
\* packet, and from then on it equals the server's.
C18_SeedReseedsClientOnly ==
    /\ conn["srv"].lenProbDist = newWDist(Listener.seed)
    /\ OpenedFirstFrame("cli") =>
          conn["cli"].lenProbDist = conn["srv"].lenProbDist
    /\ ~OpenedFirstFrame("cli") =>
          conn["cli"].lenProbDist = newWDist(SeedBytes("client"))

\* The server has read the payload the client sent after a PRNG_SEED
\* packet of its own, and the client has consumed the server's PRNG_SEED
\* packet.
C18_Witness ==
    /\ OpenedFirstFrame("srv")
    /\ OpenedFirstFrame("cli")
    /\ lastOp.op = "Read"
    /\ lastOp.ep = "srv"
    /\ lastOp.n > 0
    /\ app["cli"].writes > 0
    /\ conn["cli"].lenProbDist = newWDist(Listener.seed)

(***************************************************************************)
(* Properties of padBurst.                                                 *)
(***************************************************************************)
\* C19: after padBurst has appended its padding, the length of the burst
\* modulo MaximumSegmentLength equals the value sampled from the length
\* distribution.
C19_PaddedToSample ==
    lastPad.err = "nil" =>
        lastPad.padded % MaximumSegmentLength = lastPad.toPadTo

(***************************************************************************)
(* Properties of the replay filter's size.                                 *)
(***************************************************************************)
\* C20: after any sequence of testAndSet calls with any timestamps, the
\* replay filter holds at most maxFilterSize entries, in its map and in
\* its FIFO.
C20_FilterBounded ==
    /\ Len(rf.fifo) <= maxFilterSize
    /\ Cardinality(rf.filter) <= maxFilterSize

\* After more calls than the filter has room for, the filter is full of
\* entries of distinct byte strings first seen at the same reading of the
\* clock.
C20_Witness ==
    /\ presented > maxFilterSize
    /\ Len(rf.fifo) = maxFilterSize
    /\ \A i \in 1..Len(rf.fifo) : rf.fifo[i].firstSeen = StartTime
    /\ Cardinality({ rf.fifo[i].hash : i \in 1..Len(rf.fifo) })
          = maxFilterSize

(***************************************************************************)
(* Properties of the replay filter's entries.                              *)
(***************************************************************************)
\* C21 (as stated): when testAndSet(now, x) has returned, every entry the
\* filter holds was first seen less than filterExpiry seconds before now,
\* and x was reported as seen only on account of such an entry.
C21_HeldEntriesAreFresh ==
    lastFilter.called =>
        /\ \A e \in rf.filter : lastFilter.now - e.firstSeen < filterExpiry
        /\ lastFilter.seen =>
               \E e \in rf.filter :
                   /\ e.hash = lastFilter.hash
                   /\ lastFilter.now - e.firstSeen < filterExpiry

\* The entry that the latest call of testAndSet inserts when it returns
\* false.
InsertedEntry == [hash |-> lastFilter.hash, firstSeen |-> lastFilter.now]

\* The digest of the latest call is held by the filter f.
HeldBy(f) == \E e \in f.filter : e.hash = lastFilter.hash

C24_StepBackDiscardsAll ==
    (/\ lastFilter.called
     /\ lastFilter.before.fifo # << >>
     /\ lastFilter.now < Head(lastFilter.before.fifo).firstSeen)
    => /\ ~lastFilter.seen
       /\ rf.fifo = << InsertedEntry >>
       /\ rf.filter = {InsertedEntry}

\* The latest call found the filter full of entries none of which was
\* first seen filterExpiry seconds or more before now, and its digest was
\* not among them.
FullAndFresh ==
    /\ lastFilter.called
    /\ Len(lastFilter.before.fifo) = maxFilterSize
    /\ \A e \in lastFilter.before.filter :
           lastFilter.now - e.firstSeen < filterExpiry
    /\ ~HeldBy(lastFilter.before)

\* The latest call purged exactly the front entry of the filter it found
\* and inserted its own: the size is still the maximum and the digest of
\* the purged entry is no longer held.
EvictedOldestOnly ==
    /\ rf.fifo = Append(Tail(lastFilter.before.fifo), InsertedEntry)
    /\ Len(rf.fifo) = maxFilterSize
    /\ Cardinality(rf.filter) = maxFilterSize
    /\ \A e \in rf.filter : e.hash # Head(lastFilter.before.fifo).hash

\* C25 (as stated): a testAndSet of a new digest on a full filter without
\* expired entries evicts exactly the oldest entry.
C25_FullFilterEvictsOldest == FullAndFresh => EvictedOldestOnly

\* The latest call's timestamp is earlier than the firstSeen of the entry
\* behind the front entry of the filter it found.
BeforeSecondEntry ==
    /\ Len(lastFilter.before.fifo) >= 2
    /\ lastFilter.now < lastFilter.before.fifo[2].firstSeen

\* C25: a testAndSet of a new digest on a full filter without expired
\* entries evicts exactly the oldest entry, inserts the new one and leaves
\* the size at the maximum, unless its timestamp is earlier than the
\* firstSeen of the entry behind the oldest one: then the whole filter is
\* discarded and only the new entry is held.
C25_FullFilterEviction ==
    FullAndFresh =>
        IF BeforeSecondEntry
        THEN rf.fifo = << InsertedEntry >> /\ rf.filter = {InsertedEntry}
        ELSE EvictedOldestOnly

\* A new digest was presented to a full filter of entries an hour old, and
\* the filter gave up its oldest entry only.
C25_Witness ==
    /\ FullAndFresh
    /\ ~BeforeSecondEntry
    /\ \A e \in lastFilter.before.filter :
           lastFilter.now - e.firstSeen = ClockStep
    /\ EvictedOldestOnly

(***************************************************************************)
(* Properties of concurrent calls of testAndSet.                           *)
(***************************************************************************)
\* The calls of g and h overlapped: one was called while the other was in
\* progress.
Concurrent(g, h) == h \in gor[g].with \/ g \in gor[h].with

\* The goroutines of S, two or more, called testAndSet concurrently with
\* the same bytes, the filter held their digest at none of the calls, and
\* all of them have returned.
ConcurrentSameBytes(S) ==
    /\ Cardinality(S) >= 2
    /\ \A g \in S : gor[g].pc = "returned" /\ ~gor[g].held
    /\ \A g, h \in S : gor[g].buf = gor[h].buf
    /\ \A g, h \in S : g # h => Concurrent(g, h)

\* C22 (as stated): of the goroutines that concurrently call testAndSet
\* with the same bytes while the filter does not hold their digest, exactly
\* one gets false and all the others get true.
C22_ExactlyOneInserts ==
    \A S \in SUBSET Goroutines :
        ConcurrentSameBytes(S) =>
            Cardinality({ g \in S : ~gor[g].seen }) = 1

(***************************************************************************)
(* Properties of the decoder over a stream that arrives in pieces.         *)
(***************************************************************************)
\* A step in which Decode was called and made a difference.
DecodeStep ==
    /\ enc' = enc
    /\ wire' = wire
    /\ tampered' = tampered
    /\ << dec, rxBuf, lastDec, inFlight >>' # << dec, rxBuf, lastDec, inFlight >>

\* Decode returns ErrAgain and leaves decoder and buffer as they were.
AgainUntouched ==
    /\ lastDec'.err = "ErrAgain"
    /\ dec' = dec
    /\ rxBuf' = rxBuf

\* Decode on a decoder that waits for a length prefix.
DecodeWithoutLength ==
    IF Len(rxBuf) < lengthLength THEN AgainUntouched
    ELSE IF Len(rxBuf) < lengthLength + rxBuf[1].lv
    THEN /\ lastDec'.err = "ErrAgain"
         /\ rxBuf' = Slice(rxBuf, lengthLength, Len(rxBuf))
         /\ dec'.nextLength = rxBuf[1].lv
         /\ dec'.nextNonce = nonceBytes(dec.nonce).bytes
         /\ dec'.nonce = dec.nonce
    ELSE /\ lastDec'.err = "nil"
         /\ rxBuf' = Slice(rxBuf, lengthLength + rxBuf[1].lv, Len(rxBuf))
         /\ dec'.nextLength = 0

\* Decode on a decoder that holds the length and the nonce of the frame
\* whose body it waits for: no byte is taken for a length prefix.
DecodeWithLength ==
    IF Len(rxBuf) < dec.nextLength THEN AgainUntouched
    ELSE /\ lastDec'.err = "nil"
         /\ rxBuf' = Slice(rxBuf, dec.nextLength, Len(rxBuf))
         /\ dec'.nextLength = 0

\* C26: on the encoder's byte stream, however it is split across Decode
\* calls: Decode returns ErrAgain when the length prefix or the body is
\* incomplete and keeps its pending length and nonce; the length prefix of
\* a frame is taken from the buffer once, by the call that first sees it
\* whole, and never again while the body is awaited; and every frame
\* Decode returns is the next payload the encoder was given.
C26_ChunkingIndependent ==
    [][(DecodeStep /\ ~tampered) =>
          /\ IF dec.nextLength = 0 THEN DecodeWithoutLength
                                   ELSE DecodeWithLength
          /\ lastDec'.err = "nil" =>
                 /\ lastDec'.out = lastDec'.expected
                 /\ dec'.nonce.counter = (dec.nonce.counter + 1) % NonceModulus]_vars

\* A frame of the largest payload was returned by a Decode call that came
\* after one that had taken the length prefix and found the body
\* incomplete.
C26_Witness ==
    /\ ~tampered
    /\ lastDec.err = "nil"
    /\ lastDec.agains = 2
    /\ lastDec.out = lastDec.expected
    /\ Len(lastDec.out) = MaximumFramePayloadLength

(***************************************************************************)
(* Properties of the decoder over frames that arrive out of order.         *)
(***************************************************************************)
\* C27: the k-th frame that Decode returns as plaintext is the k-th frame
\* the encoder sent, whatever frames the network dropped, repeated or
\* handed over out of order; and a call of Decode advances the decoder's
\* nonce counter, by one, exactly when it returns a frame.
C27_OnlyNextFrameOpens ==
    /\ ord.last.err = "nil" =>
           /\ ord.opened <= Len(ord.sent)
           /\ ord.last.out = ord.sent[ord.opened].payload
           /\ ord.last.after = (ord.last.before + 1) % NonceModulus
    /\ ord.last.err # "nil" => ord.last.after = ord.last.before
    /\ ord.opened <= Len(ord.delivered)
    /\ \A k \in 1..ord.opened : \E j \in k..Len(ord.delivered) : ord.delivered[j] = k

\* The first frame was handed over twice and then the second: Decode
\* returned the first frame once and failed on its repetition.
C27_Witness ==
    /\ ord.delivered = << 1, 1, 2 >>
    /\ ord.opened = 1
    /\ DecodeFatal(ord.last.err)
    /\ ord.last.after = 2

(***************************************************************************)
(* Properties of errors met while frames are read.                         *)
(***************************************************************************)
\* The errors c.conn.Read may return.
SocketReadErrors == {"ECONNRESET", "timeout", "EOF"}

\* C28 (as stated): a Read on an established connection that returns an
\* error of the underlying stream leaves the connection Broken.
C28_ReadErrorBreaks ==
    (/\ lastOp.op = "Read"
     /\ lastOp.before = "Established"
     /\ lastOp.err \in SocketReadErrors)
        => lastOp.after = "Broken"

\* C29 (as stated): a WriteTo on an established connection whose writer
\* returned an error for payload handed to it returns an error and leaves
\* the connection no longer usable.
C29_WriterErrorIsFatal ==
    (/\ lastOp.op = "WriteTo"
     /\ lastOp.before = "Established"
     /\ lastOp.refused)
        => /\ lastOp.err # "nil"
           /\ lastOp.after # "Established"

(***************************************************************************)
(* Properties of frames left in the receive buffer.                        *)
(***************************************************************************)
\* C30 (as stated): when the receive buffer of an established connection
\* holds a complete payload frame, a Read called while no further byte
\* arrives returns bytes of that payload.
C30_BufferedFrameDelivered ==
    (lastBuf.called /\ lastBuf.held # << >>)
        => /\ ~lastBuf.blocked
           /\ lastBuf.err = "nil"
           /\ lastBuf.n > 0
           /\ IsPrefix(lastBuf.out, lastBuf.held)

(***************************************************************************)
(* Properties of the padding packets.                                      *)
(***************************************************************************)
\* C36: for every burst length and every sample from 0 to the maximum
\* segment length, padBurst asks for padding packets with at most
\* maxPacketPayloadLength bytes of padding: makePacket does not panic and
\* every frame appended is at most a segment long.
C36_PaddingFits ==
    lastPad.err # "none" =>
        /\ lastPad.err = "nil"
        /\ \A p \in lastPad.padLens : p >= 0 /\ p <= maxPacketPayloadLength
        /\ \A f \in lastPad.frames : f <= MaximumSegmentLength

\* padBurst was handed a burst of whole segments and the largest sample:
\* it appended one frame, a segment long, with the most padding a packet
\* holds.
C36_Witness ==
    /\ lastPad.err = "nil"
    /\ lastPad.toPadTo = MaximumSegmentLength
    /\ lastPad.burst % MaximumSegmentLength = 0
    /\ lastPad.padLens = {maxPacketPayloadLength}
    /\ lastPad.frames = {MaximumSegmentLength}

(***************************************************************************)
(* Properties of closeAfterDelay.                                          *)
(***************************************************************************)
\* While closeAfterDelay discards, the read deadline is set, the bytes
\* discarded are fewer than closeDelayBytes and no read has failed; once
\* it has returned, the socket is closed.
CadDiscardsWithinBudget ==
    /\ cadRun.pc = "loop" => /\ cadRun.deadlineSet
                          /\ cadRun.discarded < cadRun.budget
                          /\ cadRun.err = "nil"
                          /\ ~cadRun.closed
    /\ cadRun.pc = "done" => cadRun.closed
    /\ cadRun.late => cadRun.reads = 0 /\ cadRun.closed

\* C35: closeAfterDelay always returns with the socket closed: it reads
\* no more once the bytes discarded reach closeDelayBytes or a read has
\* failed, the read deadline being one way for a read to fail, and it
\* closes without a read when the deadline has passed at its start.
C35_CloseAfterDelayTerminates ==
    /\ []CadDiscardsWithinBudget
    /\ <>(cadRun.pc = "done" /\ cadRun.closed)

\* closeAfterDelay has returned on the read deadline, after it discarded
\* bytes short of closeDelayBytes from a peer that has not closed.
C35_Witness ==
    /\ cadRun.pc = "done"
    /\ cadRun.closed
    /\ cadRun.err = "timeout"
    /\ cadRun.discarded > 0
    /\ cadRun.discarded < cadRun.budget
    /\ ~cadRun.peerClosed

(***************************************************************************)
(* Properties of the session keys.                                         *)
(***************************************************************************)
\* The connection of endpoint e has been keyed.
Keyed(e) == conn[e].encoder # Nil /\ conn[e].decoder # Nil

\* The encoder and the decoder of endpoint e are keyed with the halves
\* enc and dec of the KDF output of one key seed.
KeyedWithHalves(e, encHalf, decHalf) ==
    /\ conn[e].encoder.key.t = "okm"
    /\ conn[e].decoder.key.t = "okm"
    /\ conn[e].encoder.key.half = encHalf
    /\ conn[e].decoder.key.half = decHalf
    /\ conn[e].encoder.key.ks = conn[e].decoder.key.ks

\* C34: the client keys its encoder with the first half of the KDF output
\* and its decoder with the second, the server the other way round; when
\* both are keyed, each decoder has the key material of the peer's
\* encoder, and the two encoders have different key material.
C34_DirectionalKeys ==
    /\ Keyed("cli") => KeyedWithHalves("cli", 1, 2)
    /\ Keyed("srv") => KeyedWithHalves("srv", 2, 1)
    /\ (Keyed("cli") /\ Keyed("srv")) =>
           /\ conn["cli"].decoder.key = conn["srv"].encoder.key
           /\ conn["srv"].decoder.key = conn["cli"].encoder.key
           /\ conn["cli"].decoder.nonce.prefix = conn["srv"].encoder.nonce.prefix
           /\ conn["srv"].decoder.nonce.prefix = conn["cli"].encoder.nonce.prefix
           /\ conn["cli"].encoder.key # conn["srv"].encoder.key

\* Both sides are keyed and the server has read bytes the client wrote.
C34_Witness ==
    /\ Keyed("cli")
    /\ Keyed("srv")
    /\ app["srv"].read # << >>
    /\ IsPrefix(app["srv"].read, app["cli"].written)

(***************************************************************************)
(* Properties of malformed packets.                                        *)
(***************************************************************************)
\* The plaintext of the frame is shorter than the packet header, or its
\* length field says more than the bytes that follow the header.
Malformed ==
    \/ lastPkt.plainLen < packetOverhead
    \/ lastPkt.ln > lastPkt.plainLen - packetOverhead

\* The bytes of the payload packet sent ahead of the frame.
SentAhead == AppBytes("srv", 0, lastPkt.good)

\* C32: a frame whose plaintext is shorter than the packet header, or
\* whose length field says more than the plaintext holds behind the
\* header, makes Read and WriteTo return InvalidPacketLengthError or
\* InvalidPayloadLengthError and leaves the connection unusable; no byte
\* of the frame, nor of a frame behind it, reaches the caller, the writer
\* or the buffer of decoded payload.
C32_MalformedPacketRejected ==
    (lastPkt.called /\ Malformed) =>
        /\ ~lastPkt.blocked
        /\ lastPkt.err = IF lastPkt.plainLen < packetOverhead
                         THEN "InvalidPacketLengthError"
                         ELSE "InvalidPayloadLengthError"
        /\ lastPkt.after = "Broken"
        /\ IsPrefix(lastPkt.out, SentAhead)
        /\ IsPrefix(lastPkt.stashed, SentAhead)

\* WriteTo met, behind a payload packet it handed on, a payload frame
\* with bytes behind the header and a length field that says more.
C32_Witness ==
    /\ lastPkt.called
    /\ lastPkt.op = "WriteTo"
    /\ lastPkt.ty = packetTypePayload
    /\ lastPkt.plainLen > packetOverhead
    /\ lastPkt.ln > lastPkt.plainLen - packetOverhead
    /\ lastPkt.out = SentAhead
    /\ lastPkt.good > 0
    /\ lastPkt.err = "InvalidPayloadLengthError"

(***************************************************************************)
(* Properties of failed writes.                                            *)
(***************************************************************************)
\* The latest call was a Write whose write to the socket failed, after
\* none or after a part of the burst went out.
StreamWriteFailed ==
    /\ lastOp.op = "Write"
    /\ lastOp.io
    /\ lastOp.err # "nil"

\* A step taken while the connection of endpoint e is Broken: the
\* connection does not become Established again, its encoder stays as it
\* is, and a Write on it sends nothing toward the peer.
BrokenStaysSilent(e) ==
    conn[e].state = "Broken" =>
        /\ conn'[e].state # "Established"
        /\ conn'[e].encoder = conn[e].encoder
        /\ (lastOp'.op = "Write" /\ lastOp'.ep = e) =>
               /\ net'[Peer(e)] = net[Peer(e)]
               /\ lastOp'.n = 0
               /\ lastOp'.err # "nil"

\* C31: when the write of a burst to the socket fails or is short, Write
\* returns 0 and an error and the connection is Broken; from then on no
\* Write on the connection sends a frame or advances the encoder.
C31_FailedWriteBreaks ==
    /\ [](StreamWriteFailed => /\ lastOp.n = 0
                               /\ lastOp.before = "Established"
                               /\ lastOp.after = "Broken")
    /\ [][\A e \in Endpoints : BrokenStaysSilent(e)]_vars

\* Write was called again on a connection whose earlier Write failed on
\* the socket after a part of the burst went out.
C31_Witness ==
    /\ lastOp.op = "Write"
    /\ lastOp.before = "Broken"
    /\ lastOp.err = "EINVAL"
    /\ app[lastOp.ep].written # app[lastOp.ep].okWritten
    /\ conn[lastOp.ep].encoder.nonce.counter > nonceInit(<< >>).counter

(***************************************************************************)
(* Properties of the relay's calls on one connection.                      *)
(***************************************************************************)
\* A step in which b.Close() runs.
CopyCloses ==
    \/ copyRun.up = "closeB" /\ copyRun'.up = "done"
    \/ copyRun.down = "closeB" /\ copyRun'.down = "closeA"

\* A Write or a WriteTo on b is in progress.
CopyCallInProgress == copyRun.up = "inWrite" \/ copyRun.down = "inWriteTo"

\* C38 (as stated): Close never runs on a connection while a Write or a
\* read call on it is in progress in another goroutine, and the state
\* Closed is never replaced by another.
C38_CloseNeverConcurrent ==
    [][/\ CopyCloses => ~CopyCallInProgress
       /\ copyRun.b.state = "Closed" => copyRun'.b.state = "Closed"]_vars

\* The first half of C38 alone, and the second.
CloseOutsideCalls == [][CopyCloses => ~CopyCallInProgress]_vars
ClosedStays == [][copyRun.b.state = "Closed" => copyRun'.b.state = "Closed"]_vars

(***************************************************************************)
(* Properties of a closed meek connection.                                 *)
(***************************************************************************)
\* The worker has left and closed both of its channels.
WorkerGone ==
    /\ meekRun.worker = "exited"
    /\ meekRun.rdClosed
    /\ meekRun.wrClosed

\* C39 (as stated): once Close has been called the worker exits and closes
\* both channels, and a caller that waits in Read or in Write is let go;
\* a Read that finds nothing in the closed channel and a Write that finds
\* it closed return ErrClosedPipe.
C39_CloseReleasesAll ==
    /\ meekRun.closed ~> WorkerGone
    /\ (meekRun.closed /\ meekRun.reader = "inRead") ~> (meekRun.reader = "idle")
    /\ (meekRun.closed /\ meekRun.writer = "inWrite") ~> (meekRun.writer = "idle")

(***************************************************************************)
(* Properties of the two halves of the replay filter.                      *)
(***************************************************************************)
\* C40: between calls of testAndSet the map and the FIFO of the replay
\* filter hold the same entries: the elements of the FIFO are the entries
\* of the map, the two are of equal size, no digest is in the FIFO twice
\* and none is the key of two entries.
C40_MapMatchesFifo ==
    /\ { rf.fifo[i] : i \in 1..Len(rf.fifo) } = rf.filter
    /\ Len(rf.fifo) = Cardinality(rf.filter)
    /\ \A i, j \in 1..Len(rf.fifo) : rf.fifo[i].hash = rf.fifo[j].hash => i = j
    /\ \A e1, e2 \in rf.filter : e1.hash = e2.hash => e1 = e2

\* A call on a full filter has purged the oldest entry and added a new
\* one behind those that stayed.
C40_Witness ==
    /\ lastFilter.called
    /\ ~lastFilter.seen
    /\ Len(lastFilter.before.fifo) = maxFilterSize
    /\ Len(rf.fifo) >= 2
    /\ rf.fifo[Len(rf.fifo)].hash = lastFilter.hash
    /\ Head(lastFilter.before.fifo) \notin rf.filter

====
